---- MODULE Spec2Model ----
(***************************************************************************)
(* Model of the analysis orchestration pipeline:                           *)
(*   - ParallelStage (engine/task-runner.ts): registration, run(), the     *)
(*     per-task race against a deadline timer and the stage guard;         *)
(*   - aggregate() (engine/aggregator.ts) and score() (scoring engine);    *)
(*   - analyze() (engine/pipeline.ts), which composes them.                *)
(*                                                                         *)
(* Time is the millisecond clock of the event loop, advanced between       *)
(* macrotasks.  A timer callback and the microtasks it triggers (the race  *)
(* settling, the catch block, Promise.all resolving, the continuation of   *)
(* run()) form one atomic step, as the event loop drains microtasks after  *)
(* every callback.                                                         *)
(***************************************************************************)
EXTENDS Integers, Sequences, FiniteSets, TLC

VARIABLES
    pc,          \* "register" | "running" | "returned" : position of the stage
    tasks,       \* ParallelStage.tasks : sequence of [label, sync]
    fnResult,    \* per task: what fn() did so far (Running, a return, a throw)
    outcome,     \* per task: Pending or the StageResult its wrapped promise resolved to
    wonBy,       \* per task: which promise won the per-task race ("none","fn","timer")
    now,         \* Date.now() - start of run()
    taskMs,      \* per-task timeout of this run
    stageMs,     \* stage timeout of this run
    timersFired, \* number of per-task timers whose callback has run (insertion order)
    stageFired,  \* whether the stage guard's timer callback has run
    returned,    \* the array run() resolved to (meaningful once pc = "returned")
    results,     \* the StageResult[] handed to aggregate()
    apc,         \* "input" | "aggregated" | "scored" : position of aggregate/score
    aggregated,  \* the AggregatedResult aggregate() returned
    scoring,     \* the ScoringResult score() returned
    fileReport,  \* score and penalties of analyzeFile() on the same issues
    issueCounter, \* _issueCounter of detection/analyzers.ts (module state)
    astUid,      \* _uid of engine/bug-lint-engine.ts (module state)
    history,     \* the analyze() calls made so far: code and report of each
    rpc,         \* "input" | "picked" | "diffed" : position of a diffReports() call
    oldReport,   \* first argument of diffReports()
    newReport,   \* second argument of diffReports()
    reportDiff,  \* the DiffResult diffReports() returned
    tpc,         \* position of the text diff: "input", "picked", "generated",
                 \* "measured", "parsed", or "supplied", "suppliedParsed"
    originalCode,  \* first argument of generateUnifiedDiff(): a string
    formattedCode, \* second argument of generateUnifiedDiff(): a string
    contextLines,  \* options.contextLines: absent or a number
    diffText,    \* the diff text generated, or supplied to parseDiff()
    parsed,      \* the ParsedDiff parseDiff(diffText) returned
    stats,       \* the DiffStats diffStats(diffText) returned
    dpc,         \* "input" | "picked" | "detected" : position of a detectLanguage() call
    sample,      \* the code argument of detectLanguage(), by what the layers see of it
    filename,    \* the filename argument of detectLanguage()
    detection,   \* the DetectionResult detectLanguage() returned
    tmpFiles,    \* the temporary files and directories that exist in os.tmpdir()
    clockMs,     \* Date.now()
    inv,         \* the engine invocations that hand code to an external process
    warningIssued, \* warningIssued of security/dependency.ts (module state)
    osvCache,    \* osvCache of security/dependency.ts: the cache keys it holds
    depRun,      \* the latest scanDependencies() run: its lookups and its issues
    depRuns,     \* the number of scanDependencies() runs so far
    codeArg,     \* the code argument of analyze(), by its type
    entryError   \* what the promise of analyze() rejected with, if it did

stageVars == <<pc, tasks, fnResult, outcome, wonBy, now, taskMs, stageMs,
               timersFired, stageFired, returned>>

aggVars == <<results, apc, aggregated, scoring, fileReport>>

callVars == <<issueCounter, astUid, history>>

reportDiffVars == <<rpc, oldReport, newReport, reportDiff>>

textDiffVars == <<tpc, originalCode, formattedCode, contextLines, diffText, parsed, stats>>

detectVars == <<dpc, sample, filename, detection>>

tmpVars == <<tmpFiles, clockMs, inv>>

depVars == <<warningIssued, osvCache, depRun, depRuns>>

entryVars == <<codeArg, entryError>>

extVars == <<callVars, reportDiffVars, textDiffVars, detectVars, tmpVars, depVars>>

vars == <<stageVars, aggVars, extVars, entryVars>>

----------------------------------------------------------------------------
(* Bounds of the model *)

MaxTasks == 2

\* number of successive analyze() calls of one process
MaxCalls == 3

\* number of lines of a text handed to generateUnifiedDiff()
MaxLines == 2

\* the number of engine invocations in flight at once that hand code to an
\* external process
MaxInvocations == 2

\* the number of scanDependencies() runs of one process
MaxRuns == 3

\* number of findings, functions and duplicates the engines report in all
MaxItems == 3

\* size of a bulk report of one engine (enough findings to saturate a penalty)
BulkCount == 7

----------------------------------------------------------------------------
(* JavaScript values *)

\* Values are tagged records, so that any two of them can be compared.
Undefined == [kind |-> "undefined"]
Opaque(id) == [kind |-> "opaque", id |-> id]

\* a fn that has not completed yet
Running == [kind |-> "running", value |-> Undefined, error |-> Undefined]

\* the wrapped promise of a task that has not resolved yet
Pending ==
    [label |-> "", status |-> "pending", value |-> Undefined, error |-> Undefined,
     durationMs |-> 0]

DEFAULT_TASK_TIMEOUT_MS == 8000
DEFAULT_STAGE_TIMEOUT_MS == 15000

\* a ?? b
Coalesce(a, b) == IF a = Undefined THEN b ELSE a

\* An optional number is the empty set (left out) or a singleton.
\* opts?.field ?? dflt
OptionOr(opt, dflt) == IF opt = {} THEN dflt ELSE CHOOSE x \in opt : TRUE

\* Values of the timeout options a caller passes (or leaves out).
TimeoutOptions == {{}, {5000}}

\* Instants at which the event loop is observed.
Instants == {0, 5000, 8000, 15000}

\* Labels a caller registers generic tasks under: the n-th task gets the n-th.
StageLabels == <<"a", "b", "c", "d">>

\* Values a generic task returns.
TaskValues == {Opaque("v1"), Opaque("v2")}

\* Things a task throws or rejects with.  A message is the sequence of its
\* tokens, so that startsWith is computed and not assumed.
TaskErrors ==
    { [kind |-> "thrown", isError |-> TRUE,  message |-> <<"boom">>],
      [kind |-> "thrown", isError |-> TRUE,  message |-> <<"[timeout]", "upstream", "call">>],
      [kind |-> "thrown", isError |-> FALSE, message |-> <<"[timeout]", "plain", "object">>] }

\* new Error(`[timeout] stage "${label}" exceeded ${ms}ms`)
TimeoutError(ms, label) ==
    [kind |-> "thrown", isError |-> TRUE,
     message |-> <<"[timeout]", "stage", label, "exceeded", ToString(ms)>>]

\* message.startsWith(prefix), one token of prefix
StartsWith(message, prefix) == Len(message) >= 1 /\ message[1] = prefix

FnReturn(v) == [kind |-> "return", value |-> v, error |-> Undefined]
FnThrow(e) == [kind |-> "throw", value |-> Undefined, error |-> e]

GenericFnResults == {FnReturn(v) : v \in TaskValues} \cup {FnThrow(e) : e \in TaskErrors}

----------------------------------------------------------------------------
(* ParallelStage.run : the wrapped task *)

\* a catch block that reports every failure as "rejected"
CatchOutcomeAlwaysRejected(label, err, duration) ==
    [label |-> label, status |-> "rejected", value |-> Undefined, error |-> err,
     durationMs |-> duration]

\* the catch block of a wrapped task
CatchOutcome(label, err, duration) ==
    [label |-> label,
     status |-> IF err.isError /\ StartsWith(err.message, "[timeout]")
                THEN "timeout" ELSE "rejected",
     value |-> Undefined,
     error |-> err,
     durationMs |-> duration]

\* the StageResult a wrapped task resolves to when fn settles first
WrappedOutcome(label, res, duration) ==
    IF res.kind = "return"
    THEN [label |-> label, status |-> "fulfilled", value |-> res.value,
          error |-> Undefined, durationMs |-> duration]
    ELSE CatchOutcome(label, res.error, duration)

\* a per-task timer whose firing settles nothing
TimerOutcomeStaysPending(label, ms, duration) == Pending

\* the StageResult a wrapped task resolves to when its timer fires first
TimerOutcome(label, ms, duration) ==
    CatchOutcome(label, TimeoutError(ms, label), duration)

AllSettled(out) == \A i \in 1..Len(out) : out[i] # Pending

\* what the outer race resolves to when the stage guard wins
StageGuardValue == << >>

----------------------------------------------------------------------------
(* ParallelStage *)

\* add(label, fn)
Add(label, sync) ==
    /\ pc = "register"
    /\ Len(tasks) < MaxTasks
    /\ tasks' = Append(tasks, [label |-> label, sync |-> sync])
    /\ UNCHANGED <<aggVars, extVars, entryVars, pc, fnResult, outcome, wonBy, now, taskMs, stageMs,
                   timersFired, stageFired, returned>>

\* a continuation that waits for the stage guard whatever has settled
ContinueAtStageDeadlineOnly(out) ==
    /\ returned' = returned
    /\ pc' = "running"

\* The common tail of every step of run(): the continuation after
\* Promise.race([Promise.all(wrappedTasks), stageGuard]).
Continue(out) ==
    IF AllSettled(out)
    THEN /\ returned' = out
         /\ pc' = "returned"
    ELSE /\ returned' = returned
         /\ pc' = "running"

\* run(opts): the synchronous part and the first microtask drain.  Tasks whose
\* fn completes synchronously settle here, before any timer can fire.
\* choice[i] is what the i-th fn does if it is synchronous.
RunStage(ts, taskOpt, stageOpt, choice) ==
    /\ pc = "register"
    /\ tasks' = ts
    /\ taskMs' = OptionOr(taskOpt, DEFAULT_TASK_TIMEOUT_MS)
    /\ stageMs' = OptionOr(stageOpt, DEFAULT_STAGE_TIMEOUT_MS)
    /\ now' = 0
    /\ fnResult' = [i \in 1..Len(ts) |-> IF ts[i].sync THEN choice[i] ELSE Running]
    /\ wonBy' = [i \in 1..Len(ts) |-> IF ts[i].sync THEN "fn" ELSE "none"]
    /\ outcome' = [i \in 1..Len(ts) |->
                      IF ts[i].sync
                      THEN WrappedOutcome(ts[i].label, choice[i], 0)
                      ELSE Pending]
    /\ Continue(outcome')
    /\ UNCHANGED <<aggVars, extVars, timersFired, stageFired>>

Run ==
    \E taskOpt \in TimeoutOptions, stageOpt \in TimeoutOptions :
        \E choice \in [1..Len(tasks) -> GenericFnResults \cup {Running}] :
            /\ \A i \in 1..Len(tasks) : tasks[i].sync => choice[i] # Running
            /\ \A i \in 1..Len(tasks) : ~tasks[i].sync => choice[i] = Running
            /\ RunStage(tasks, taskOpt, stageOpt, choice)
            /\ UNCHANGED entryVars

\* The promise of an asynchronous fn settles with res before the task's timer
\* has fired, and wins the per-task race.  (A fn that completes after its
\* timer has won changes nothing: the race is settled, cancellation is soft.)
Settle(i, res) ==
    /\ pc = "running"
    /\ fnResult[i] = Running
    /\ outcome[i] = Pending
    /\ fnResult' = [fnResult EXCEPT ![i] = res]
    /\ outcome' = [outcome EXCEPT ![i] = WrappedOutcome(tasks[i].label, res, now)]
    /\ wonBy' = [wonBy EXCEPT ![i] = "fn"]
    /\ Continue(outcome')
    /\ UNCHANGED <<aggVars, extVars, entryVars, tasks, now, taskMs, stageMs, timersFired, stageFired>>

\* The callback of the next per-task timer.  Timers run in the order of their
\* deadlines and, for equal deadlines, in the order they were created: the
\* per-task timers are created before the stage guard's.
TaskTimer ==
    /\ pc = "running"
    /\ timersFired < Len(tasks)
    /\ now >= taskMs
    /\ (stageMs < taskMs) => stageFired
    /\ LET i == timersFired + 1 IN
        /\ timersFired' = i
        /\ IF outcome[i] = Pending
           THEN /\ outcome' = [outcome EXCEPT
                                  ![i] = TimerOutcome(tasks[i].label, taskMs, now)]
                /\ wonBy' = [wonBy EXCEPT ![i] = "timer"]
           ELSE UNCHANGED <<outcome, wonBy>>
    /\ Continue(outcome')
    /\ UNCHANGED <<aggVars, extVars, entryVars, tasks, fnResult, now, taskMs, stageMs, stageFired>>

\* The callback of the stage guard's timer: the guard resolves to [] and,
\* Promise.all being still pending, wins the outer race.
StageTimer ==
    /\ pc = "running"
    /\ ~stageFired
    /\ now >= stageMs
    /\ (taskMs <= stageMs) => timersFired = Len(tasks)
    /\ stageFired' = TRUE
    /\ returned' = StageGuardValue
    /\ pc' = "returned"
    /\ UNCHANGED <<aggVars, extVars, entryVars, tasks, fnResult, outcome, wonBy, now, taskMs, stageMs, timersFired>>

\* deadlines of the timers whose callback has not run yet
PendingDeadlines ==
    (IF timersFired < Len(tasks) THEN {taskMs} ELSE {})
        \cup (IF stageFired THEN {} ELSE {stageMs})

\* Time passes up to the next instant; a timer that is due runs first.
Tick ==
    /\ pc = "running"
    /\ \A d \in PendingDeadlines : now < d
    /\ \E t \in Instants :
        /\ t > now
        /\ \A u \in Instants : u > now => t <= u
        /\ now' = t
    /\ UNCHANGED <<aggVars, extVars, entryVars, pc, tasks, fnResult, outcome, wonBy, taskMs, stageMs,
                   timersFired, stageFired, returned>>

StageNext ==
    \/ \E sync \in BOOLEAN : Add(StageLabels[Len(tasks) + 1], sync)
    \/ Run
    \/ \E i \in 1..Len(tasks), res \in GenericFnResults : Settle(i, res)
    \/ TaskTimer
    \/ StageTimer
    \/ Tick


----------------------------------------------------------------------------
(* CodeIssue, engine outputs *)

Categories == {"bug", "security", "complexity", "redundancy", "style"}
Severities == {"error", "warning", "info"}

\* An optional line is the empty set (no line) or a singleton; lines count from 1.
NoLine == {}

Issue(id, cat, sev, msg, line) ==
    [id |-> id, category |-> cat, severity |-> sev, message |-> msg, line |-> line]

\* an array value / the values of the structural engines
Arr(items) == [kind |-> "array", items |-> items]
ComplexityValue(fns) == [kind |-> "object", functions |-> Arr(fns)]
RedundancyValue(dups) == [kind |-> "object", duplicates |-> Arr(dups)]
FormattingValue(formatted, diff, n) ==
    [kind |-> "object", formatted |-> formatted, diff |-> diff, changesCount |-> n]

\* what getValue and aggregate propagate when an expression throws a TypeError
Thrown == [kind |-> "thrown"]

\* Findings the issue engines report.  The lists share lines and messages so
\* that deduplication has collisions to resolve.
IssuePool(label) ==
    CASE label = "baseAnalyzer" ->
           { Issue(<<"issue", "1">>, "bug", "warning", <<"Use === instead of ==.">>, {1}),
             Issue(<<"issue", "2">>, "security", "error", <<"eval() is dangerous">>, {2}),
             Issue(<<"issue", "3">>, "style", "info", <<"shared">>, NoLine) }
      [] label = "bugLintEngine" ->
           { Issue(<<"ast", "1">>, "bug", "warning", <<"Use === instead of ==.">>, {1}),
             Issue(<<"ast", "2">>, "bug", "error", <<"shared">>, NoLine) }
      [] label = "securityRules" ->
           { Issue(<<"sec", "1">>, "security", "warning", <<"Hardcoded secret">>, {3}) }
      [] label = "semgrepEngine" ->
           { Issue(<<"semgrep", "1">>, "security", "error", <<"[Semgrep]", "injection">>, {1}),
             Issue(<<"semgrep", "2">>, "security", "warning", <<"shared">>, NoLine) }
      [] label = "osvEngine" ->
           { Issue(<<"osv", "1">>, "security", "error", <<"Dependency", "vulnerable">>, NoLine) }
      [] label = "teamSecurityEngine" ->
           { Issue(<<"team-sec", "1">>, "security", "error", <<"[SQL_INJECTION]", "query">>, {1}),
             Issue(<<"team-sec", "2">>, "security", "warning", <<"[XSS]", "html">>, {2}),
             Issue(<<"team-sec", "2b">>, "security", "warning", <<"[XSS]", "html">>, {2}),
             Issue(<<"team-sec", "3">>, "security", "info", <<"shared">>, NoLine) }
      [] OTHER -> {}

\* BulkCount findings of one kind on lines 1..BulkCount
BulkIssues(prefix, cat, sev) ==
    [i \in 1..BulkCount |-> Issue(<<prefix, ToString(i)>>, cat, sev, <<"bulk">>, {i})]

\* FunctionComplexity records analyzeComplexity() produces
FunctionPool ==
    { [name |-> "f", line |-> 1, cyclomaticComplexity |-> 12, length |-> 10,
       nestingDepth |-> 2, warnings |-> <<"High cyclomatic complexity (>10)">>],
      [name |-> "g", line |-> 5, cyclomaticComplexity |-> 3, length |-> 8,
       nestingDepth |-> 4, warnings |-> << >>],
      [name |-> "h", line |-> 9, cyclomaticComplexity |-> 12, length |-> 60,
       nestingDepth |-> 4,
       warnings |-> <<"High cyclomatic complexity (>10)", "Function too long (>50 lines)">>] }

\* DuplicateFunction records analyzeRedundancy() produces
DuplicatePool ==
    { [name |-> "f2", line |-> 5, duplicateOf |-> "f"],
      [name |-> "f3", line |-> 9, duplicateOf |-> "f"] }

SampleFormatting == FormattingValue("formatted", "diff", 1)

----------------------------------------------------------------------------
(* aggregate() *)

\* issue.line ?? 0
LineOrZero(issue) == OptionOr(issue.line, 0)

\* `${issue.line ?? 0}:${issue.message}` : the decimal line never holds a
\* colon, so the string is equal exactly when both parts are.
DedupKey(issue) == <<ToString(LineOrZero(issue)), ":", issue.message>>

RECURSIVE DedupFrom(_, _, _)
DedupFrom(issues, i, seen) ==
    IF i > Len(issues) THEN << >>
    ELSE IF DedupKey(issues[i]) \in seen
         THEN DedupFrom(issues, i + 1, seen)
         ELSE <<issues[i]>> \o DedupFrom(issues, i + 1, seen \cup {DedupKey(issues[i])})

\* a deduplicate that filters nothing
deduplicateNothing(issues) == issues

deduplicate(issues) == DedupFrom(issues, 1, {})

HasLine(i) == i.line # NoLine
TheLine(i) == CHOOSE n \in i.line : TRUE

\* a deduplicateSecurity that forgets the same-line filter
deduplicateSecurityNoFilter(semgrep, osv, regexSecurity) ==
    deduplicate(semgrep \o osv \o regexSecurity)

deduplicateSecurity(semgrep, osv, regexSecurity) ==
    LET semgrepLines == {TheLine(semgrep[k]) : k \in {j \in 1..Len(semgrep) : HasLine(semgrep[j])}}
        Keep(i) == ~HasLine(i) \/ TheLine(i) \notin semgrepLines
        filteredRegex == SelectSeq(regexSecurity, Keep)
    IN deduplicate(semgrep \o osv \o filteredRegex)

\* new Map(results.map(r => [r.label, r])).get(label): the last entry wins
ByLabelGet(rs, label) ==
    LET idx == {i \in 1..Len(rs) : rs[i].label = label}
    IN IF idx = {} THEN Undefined
       ELSE rs[CHOOSE i \in idx : \A j \in idx : j <= i]

\* a getValue without the !result test: reading .status of undefined throws
getValueNoAbsentTest(result, fallback) ==
    IF result = Undefined THEN Thrown
    ELSE IF result.status # "fulfilled" THEN fallback
    ELSE Coalesce(result.value, fallback)

getValue(result, fallback) ==
    IF result = Undefined \/ result.status # "fulfilled" THEN fallback
    ELSE Coalesce(result.value, fallback)

\* the issues of one FunctionComplexity
FunctionIssues(fn) ==
    IF Len(fn.warnings) = 0 THEN << >>
    ELSE [w \in 1..Len(fn.warnings) |->
            Issue(<<"cplx", fn.name, ToString(fn.line)>>, "complexity", "warning",
                  <<"Function", fn.name, fn.warnings[w],
                    ToString(fn.cyclomaticComplexity), ToString(fn.length),
                    ToString(fn.nestingDepth)>>,
                  {fn.line})]
         \o (IF fn.nestingDepth > 3 /\ Len(fn.warnings) = 0
             THEN <<Issue(<<"cplx-nest", fn.name, ToString(fn.line)>>, "complexity",
                          "warning",
                          <<"Function", fn.name, "has nesting depth",
                            ToString(fn.nestingDepth)>>,
                          {fn.line})>>
             ELSE << >>)

RECURSIVE complexityFunctionsToIssues(_)
complexityFunctionsToIssues(fns) ==
    IF fns = << >> THEN << >>
    ELSE FunctionIssues(Head(fns)) \o complexityFunctionsToIssues(Tail(fns))

duplicatesToIssues(duplicates) ==
    [i \in 1..Len(duplicates) |->
        Issue(<<"redundancy-dup", ToString(i - 1), ToString(duplicates[i].line)>>,
              "redundancy", "warning",
              <<duplicates[i].name, ToString(duplicates[i].line), "is a duplicate of",
                duplicates[i].duplicateOf>>,
              {duplicates[i].line})]

RECURSIVE SumSeq(_)
SumSeq(ns) == IF ns = << >> THEN 0 ELSE Head(ns) + SumSeq(Tail(ns))

RECURSIVE MaxSeq(_)
MaxSeq(ns) ==
    IF ns = << >> THEN 0
    ELSE LET m == MaxSeq(Tail(ns)) IN IF Head(ns) > m THEN Head(ns) ELSE m

NotSecurity(i) == i.category # "security"

LabelsOf(rs) == {rs[i].label : i \in 1..Len(rs)}

\* position of the outcome labelled `label` in the stage results (0: absent)
PositionOf(rs, label) ==
    LET idx == {i \in 1..Len(rs) : rs[i].label = label}
    IN IF idx = {} THEN 0 ELSE CHOOSE i \in idx : \A j \in idx : j <= i

\* a merge that lists the findings in the order the outcomes arrived
MergedIssuesInArrivalOrder(rs, base, bugLint, cplx, red) ==
    IF PositionOf(rs, "bugLintEngine") < PositionOf(rs, "baseAnalyzer")
    THEN bugLint \o base \o cplx \o red
    ELSE base \o bugLint \o cplx \o red

\* [...baseAnalyzerIssues, ...bugLintEngineIssues, ...complexityIssues,
\*  ...redundancyIssues]
MergedIssues(rs, base, bugLint, cplx, red) == base \o bugLint \o cplx \o red

aggregate(rs) ==
    LET bugLintEngineValue == getValue(ByLabelGet(rs, "bugLintEngine"), Arr(<< >>))
        semgrepValue == getValue(ByLabelGet(rs, "semgrepEngine"), Arr(<< >>))
        teamSecurityValue == getValue(ByLabelGet(rs, "teamSecurityEngine"), Arr(<< >>))
        baseAnalyzerValue == getValue(ByLabelGet(rs, "baseAnalyzer"), Arr(<< >>))
        complexityResult == getValue(ByLabelGet(rs, "complexityEngine"), ComplexityValue(<< >>))
        redundancyResult == getValue(ByLabelGet(rs, "redundancyEngine"), RedundancyValue(<< >>))
        formatting == getValue(ByLabelGet(rs, "formatter"), FormattingValue("", "", 0))
    IN IF Thrown \in {bugLintEngineValue, semgrepValue, teamSecurityValue, baseAnalyzerValue,
                      complexityResult, redundancyResult, formatting}
       THEN Thrown
       ELSE
       LET complexityFns == Coalesce(complexityResult.functions, Arr(<< >>)).items
           complexityIssues == complexityFunctionsToIssues(complexityFns)
           duplicates == Coalesce(redundancyResult.duplicates, Arr(<< >>)).items
           redundancyIssues == duplicatesToIssues(duplicates)
           allIssues == deduplicate(MergedIssues(rs, baseAnalyzerValue.items,
                                                 bugLintEngineValue.items,
                                                 complexityIssues, redundancyIssues))
           securityIssues == deduplicateSecurity(semgrepValue.items, << >>,
                                                 teamSecurityValue.items)
       IN [kind |-> "aggregated",
           issues |-> SelectSeq(allIssues, NotSecurity),
           securityIssues |-> securityIssues,
           complexityMetrics |->
               [decisionPoints |->
                    SumSeq([k \in 1..Len(complexityFns) |->
                               complexityFns[k].cyclomaticComplexity - 1]),
                maxDepth |->
                    MaxSeq([k \in 1..Len(complexityFns) |-> complexityFns[k].nestingDepth]),
                issues |-> complexityIssues,
                functions |-> complexityFns],
           redundancy |->
               [duplicateCount |-> Len(duplicates),
                issues |-> redundancyIssues,
                duplicates |-> duplicates],
           formatting |-> formatting,
           stageTiming |-> [l \in LabelsOf(rs) |-> ByLabelGet(rs, l).durationMs]]

----------------------------------------------------------------------------
(* score() : weights in hundredths, penalties in hundredths, scores in 1/10000 *)

DEFAULT_WEIGHTS ==
    [bug |-> 35, security |-> 30, complexity |-> 15, redundancy |-> 10, style |-> 10]

Min(a, b) == IF a < b THEN a ELSE b
Max(a, b) == IF a > b THEN a ELSE b

\* { ...DEFAULT_WEIGHTS, ...weightOverrides }
MergeWeights(overrides) ==
    [c \in Categories |-> IF c \in DOMAIN overrides THEN overrides[c] ELSE DEFAULT_WEIGHTS[c]]

\* count(issues, cat, sev)
count(issues, cat, sev) ==
    LET Match(i) == i.category = cat /\ i.severity = sev
    IN Len(SelectSeq(issues, Match))

PenaltyBreakdown(all) ==
    [bug |-> Min(100, count(all, "bug", "error") * 15 + count(all, "bug", "warning") * 5),
     security |-> Min(100, count(all, "security", "error") * 20
                             + count(all, "security", "warning") * 8),
     complexity |-> Min(100, count(all, "complexity", "error") * 10
                               + count(all, "complexity", "warning") * 4),
     redundancy |-> Min(100, count(all, "redundancy", "warning") * 4),
     style |-> Min(100, count(all, "style", "warning") * 3 + count(all, "style", "info") * 1)]

FinalScore(weights, penalty) ==
    Max(0, 10000 - weights.bug * penalty.bug
                 - weights.security * penalty.security
                 - weights.complexity * penalty.complexity
                 - weights.redundancy * penalty.redundancy
                 - weights.style * penalty.style)

\* Math.round(finalScore * 1000) / 1000, in 1/10000
Round3(s) == ((s + 5) \div 10) * 10

\* the issues score() counts
ScoredIssues(agg) ==
    agg.issues \o agg.securityIssues \o agg.complexityMetrics.issues \o agg.redundancy.issues

score(agg, weightOverrides) ==
    LET weights == MergeWeights(weightOverrides)
        all == ScoredIssues(agg)
        penaltyBreakdown == PenaltyBreakdown(all)
        finalScore == FinalScore(weights, penaltyBreakdown)
    IN [kind |-> "scoring",
        score |-> finalScore,
        weights |-> weights,
        penaltyBreakdown |-> penaltyBreakdown,
        snapshot |-> [score |-> Round3(finalScore), issueCount |-> Len(all)]]

\* analyzeFile(): the same formula over the issues of the language analyzer
analyzeFileReport(issues, weightOverrides) ==
    LET weights == MergeWeights(weightOverrides)
        penaltyBreakdown == PenaltyBreakdown(issues)
    IN [kind |-> "fileReport",
        issues |-> issues,
        score |-> FinalScore(weights, penaltyBreakdown),
        weights |-> weights,
        penaltyBreakdown |-> penaltyBreakdown]

\* weight overrides a caller passes: none, one weight raised to 1, every weight
\* raised to 1, a negative weight
WeightOverrides ==
    { << >>,
      [c \in {"bug"} |-> 100],
      [c \in Categories |-> 100],
      [c \in {"security"} |-> 0 - 100],
      [c \in {"bug"} |-> 0 - 50] }

----------------------------------------------------------------------------
(* aggregate() and score() on arbitrary stage results *)

NoValue == [kind |-> "none"]

\* an invocation slot before its engine is called
Idle == [engine |-> "", pc |-> "idle", dir |-> << >>, file |-> << >>, result |-> ""]

\* the order in which analyze() registers its engines; teamSecurityEngine is
\* the label aggregate() reads for the heuristic security scanner
AggLabels ==
    <<"baseAnalyzer", "bugLintEngine", "securityRules", "semgrepEngine", "osvEngine",
      "complexityEngine", "redundancyEngine", "formatter", "teamSecurityEngine">>

LabelIndex(label) == CHOOSE k \in 1..Len(AggLabels) : AggLabels[k] = label

Fulfilled(label, value, duration) ==
    [label |-> label, status |-> "fulfilled", value |-> value, error |-> Undefined,
     durationMs |-> duration]

\* number of findings, functions and duplicates in the stage results
ItemCount(rs) ==
    SumSeq([k \in 1..Len(rs) |->
              IF rs[k].value.kind = "array"
              THEN (IF Len(rs[k].value.items) >= BulkCount
                    THEN 1 + Len(rs[k].value.items) - BulkCount
                    ELSE Len(rs[k].value.items))
              ELSE IF "functions" \in DOMAIN rs[k].value THEN Len(rs[k].value.functions.items)
              ELSE IF "duplicates" \in DOMAIN rs[k].value THEN Len(rs[k].value.duplicates.items)
              ELSE 1])

\* Stage results are listed in registration order: an engine reports one more
\* item, or the next engine fulfils with its first item.
CanExtend(label) ==
    /\ apc = "input"
    /\ ItemCount(results) < MaxItems
    /\ results # << >> => LabelIndex(results[Len(results)].label) <= LabelIndex(label)

LastValue == results[Len(results)].value

\* appended: the last outcome's value with the item added; fresh: the value
\* of a new outcome holding the item alone
Extend(label, appended, fresh) ==
    IF results # << >> /\ results[Len(results)].label = label
    THEN results' = [results EXCEPT ![Len(results)].value = appended]
    ELSE results' = Append(results, Fulfilled(label, fresh, Len(results) + 1))

\* a fresh ParallelStage, and nothing aggregated or scored yet
Init ==
    /\ pc = "register"
    /\ tasks = << >>
    /\ fnResult = << >>
    /\ outcome = << >>
    /\ wonBy = << >>
    /\ now = 0
    /\ taskMs = DEFAULT_TASK_TIMEOUT_MS
    /\ stageMs = DEFAULT_STAGE_TIMEOUT_MS
    /\ timersFired = 0
    /\ stageFired = FALSE
    /\ returned = << >>
    /\ results = << >>
    /\ apc = "input"
    /\ aggregated = NoValue
    /\ scoring = NoValue
    /\ fileReport = NoValue
    /\ issueCounter = 0
    /\ astUid = 0
    /\ history = << >>
    /\ rpc = "input"
    /\ oldReport = NoValue
    /\ newReport = NoValue
    /\ reportDiff = NoValue
    /\ tpc = "input"
    /\ originalCode = << >>
    /\ formattedCode = << >>
    /\ contextLines = {}
    /\ diffText = << >>
    /\ parsed = NoValue
    /\ stats = NoValue
    /\ dpc = "input"
    /\ sample = NoValue
    /\ filename = << >>
    /\ detection = NoValue
    /\ tmpFiles = {}
    /\ clockMs = 0
    /\ inv = [i \in 1..MaxInvocations |-> Idle]
    /\ warningIssued = FALSE
    /\ osvCache = {}
    /\ depRun = NoValue
    /\ depRuns = 0
    /\ codeArg = "string"
    /\ entryError = NoValue

AddIssue(label, issue) ==
    /\ CanExtend(label)
    /\ Extend(label, Arr(Append(LastValue.items, issue)), Arr(<<issue>>))
    /\ UNCHANGED <<stageVars, extVars, entryVars, apc, aggregated, scoring, fileReport>>

\* an engine that reports BulkCount findings of one kind
AddBulk(label, cat, sev) ==
    /\ CanExtend(label)
    /\ label \notin LabelsOf(results)
    /\ results' = Append(results,
                         Fulfilled(label, Arr(BulkIssues(label, cat, sev)), Len(results) + 1))
    /\ UNCHANGED <<stageVars, extVars, entryVars, apc, aggregated, scoring, fileReport>>

AddFunction(fn) ==
    /\ CanExtend("complexityEngine")
    /\ Extend("complexityEngine",
              ComplexityValue(Append(LastValue.functions.items, fn)),
              ComplexityValue(<<fn>>))
    /\ UNCHANGED <<stageVars, extVars, entryVars, apc, aggregated, scoring, fileReport>>

AddDuplicate(dup) ==
    /\ CanExtend("redundancyEngine")
    /\ Extend("redundancyEngine",
              RedundancyValue(Append(LastValue.duplicates.items, dup)),
              RedundancyValue(<<dup>>))
    /\ UNCHANGED <<stageVars, extVars, entryVars, apc, aggregated, scoring, fileReport>>

\* const aggregated = aggregate(stageResults)
Aggregate ==
    /\ apc = "input"
    /\ aggregated' = aggregate(results)
    /\ apc' = "aggregated"
    /\ UNCHANGED <<stageVars, extVars, entryVars, results, scoring, fileReport>>

\* scoreResult(aggregated, weights), and analyzeFile() with the same weights on
\* the issues of the language analyzer
Score(weightOverrides) ==
    /\ apc = "aggregated"
    /\ aggregated # Thrown
    /\ scoring' = score(aggregated, weightOverrides)
    /\ fileReport' = analyzeFileReport(
                        getValue(ByLabelGet(results, "baseAnalyzer"), Arr(<< >>)).items,
                        weightOverrides)
    /\ apc' = "scored"
    /\ UNCHANGED <<stageVars, extVars, entryVars, results, aggregated>>

IssueLabels ==
    {"baseAnalyzer", "bugLintEngine", "securityRules", "semgrepEngine", "osvEngine",
     "teamSecurityEngine"}

AggNext ==
    \/ \E label \in IssueLabels : \E issue \in IssuePool(label) : AddIssue(label, issue)
    \/ AddBulk("baseAnalyzer", "bug", "error")
    \/ AddBulk("teamSecurityEngine", "security", "error")
    \/ \E fn \in FunctionPool : AddFunction(fn)
    \/ \E dup \in DuplicatePool : AddDuplicate(dup)
    \/ Aggregate
    \/ \E w \in WeightOverrides : Score(w)

SpecAgg == Init /\ [][AggNext]_vars

SpecStage == Init /\ [][StageNext]_vars

\* the event loop runs the callback of every timer that is due, and time
\* does not stop while a timer is pending
SpecStageLive ==
    Init /\ [][StageNext]_vars
         /\ WF_vars(TaskTimer) /\ WF_vars(StageTimer) /\ WF_vars(Tick)

----------------------------------------------------------------------------
(* analyze() : detect, run the engines in one ParallelStage, aggregate, score *)

\* options.timeout a caller passes: absent, or 5 s
AnalyzeTimeouts == {{}, {5000}}

Task(label, sync) == [label |-> label, sync |-> sync]

\* the stage.add calls of analyze(); an engine is asynchronous when its
\* function returns a promise that settles after I/O
PipelineTasks(languageKnown) ==
    (IF languageKnown THEN <<Task("baseAnalyzer", TRUE)>> ELSE << >>)
    \o <<Task("bugLintEngine", TRUE), Task("securityRules", TRUE),
         Task("semgrepEngine", FALSE), Task("osvEngine", FALSE),
         Task("complexityEngine", TRUE), Task("redundancyEngine", TRUE),
         Task("formatter", TRUE)>>

EngineFault == [kind |-> "thrown", isError |-> TRUE, message |-> <<"engine", "fault">>]

\* the first finding of an engine's pool
FirstOf(label) == CHOOSE i \in IssuePool(label) : i.id[Len(i.id)] = "1"

\* the security finding with a line of an engine's pool
SecurityOf(label) ==
    CHOOSE i \in IssuePool(label) : i.category = "security" /\ i.line # NoLine

\* what the function registered under `label` can do: return its findings,
\* or fail; the functions with a try/catch return their default instead
EngineResults(label) ==
    CASE label = "baseAnalyzer" ->
           \* the loose-equality warning and the eval() security finding
           {FnReturn(Arr(<<FirstOf(label), SecurityOf(label)>>)), FnThrow(EngineFault)}
      [] label \in {"bugLintEngine", "semgrepEngine", "osvEngine"} ->
           {FnReturn(Arr(<<i>>)) : i \in {FirstOf(label)}} \cup {FnThrow(EngineFault)}
      [] label = "securityRules" ->
           {FnReturn(Arr(<<FirstOf(label)>>)), FnReturn(Arr(<< >>))}
      [] label = "complexityEngine" ->
           {FnReturn(ComplexityValue(<<f>>)) : f \in {x \in FunctionPool : x.name = "f"}}
               \cup {FnReturn(ComplexityValue(<< >>))}
      [] label = "redundancyEngine" ->
           {FnReturn(RedundancyValue(<<d>>)) : d \in {x \in DuplicatePool : x.name = "f2"}}
               \cup {FnReturn(RedundancyValue(<< >>))}
      [] label = "formatter" ->
           {FnReturn(SampleFormatting), FnThrow(EngineFault)}

\* the code argument of analyze() by type: a string, or one of the values
\* that are not strings
CodeArgs == {"string", "null", "undefined", "zero", "number", "object"}

\* !code holds of null, undefined and 0; code.trim() is a TypeError for every
\* other value that is not a string
Falsy(code) == code \in {"null", "undefined", "zero"}

TrimIsNotAFunction ==
    [kind |-> "thrown", isError |-> TRUE, name |-> "TypeError",
     message |-> <<"code.trim", "is not a function">>]

\* what the synchronous engines do with a falsy code and language "unknown":
\* runBugLintEngine returns [] for the language, the engines wrapped in
\* try/catch return their default, formatCode throws on code.split
NonStringSync ==
    [baseAnalyzer |-> FnThrow(EngineFault),
     bugLintEngine |-> FnReturn(Arr(<< >>)),
     securityRules |-> FnReturn(Arr(<< >>)),
     complexityEngine |-> FnReturn(ComplexityValue(<< >>)),
     redundancyEngine |-> FnReturn(RedundancyValue(<< >>)),
     formatter |-> FnThrow(EngineFault)]

\* what an asynchronous engine settles with: runSemgrepEngine cannot write a
\* code that is not a string and returns []
EngineResultsFor(code, label) ==
    IF code # "string" /\ label = "semgrepEngine"
    THEN {FnReturn(Arr(<< >>))}
    ELSE EngineResults(label)

\* analyze(code, options) up to the first timer: detectLanguage, the stage.add
\* calls, stage.run({taskTimeoutMs: 8_000, stageTimeoutMs: totalTimeout}) and
\* the synchronous engines; sync[label] is what the engine `label` does
AnalyzeStart(code, languageKnown, timeout, sync) ==
    /\ tasks = << >>
    /\ apc = "input"
    /\ code = "string" \/ Falsy(code)
    /\ Falsy(code) => ~languageKnown
    /\ LET ts == PipelineTasks(languageKnown)
       IN RunStage(ts, {8000}, {OptionOr(timeout, 15000)},
                   [i \in 1..Len(ts) |->
                       IF ts[i].sync THEN sync[ts[i].label] ELSE Running])
    /\ codeArg' = code
    /\ UNCHANGED entryError

\* analyze(code) where detectLanguage(code) throws: the promise analyze()
\* returned rejects with what was thrown
AnalyzeThrows(code) ==
    /\ tasks = << >>
    /\ pc = "register"
    /\ apc = "input"
    /\ code # "string" /\ ~Falsy(code)
    /\ codeArg' = code
    /\ entryError' = TrimIsNotAFunction
    /\ apc' = "rejected"
    /\ UNCHANGED <<stageVars, extVars, results, aggregated, scoring, fileReport>>

\* an asynchronous engine's promise settles
EngineSettles(i) ==
    \E res \in EngineResultsFor(codeArg, tasks[i].label) : Settle(i, res)

\* the rest of analyze() once stage.run() has resolved: aggregate, score and
\* build the report; a throw in between rejects the promise analyze() returned
AnalyzeFinish(weightOverrides) ==
    /\ pc = "returned"
    /\ apc = "input"
    /\ results' = returned
    /\ aggregated' = aggregate(returned)
    /\ IF aggregated' = Thrown
       THEN /\ apc' = "rejected"
            /\ scoring' = scoring
       ELSE /\ apc' = "scored"
            /\ scoring' = score(aggregated', weightOverrides)
    /\ UNCHANGED <<stageVars, extVars, entryVars, fileReport>>

PipeNext ==
    \/ \E languageKnown \in BOOLEAN, timeout \in AnalyzeTimeouts :
          \E base \in EngineResults("baseAnalyzer"),
             bugLint \in EngineResults("bugLintEngine"),
             secRules \in EngineResults("securityRules"),
             cplx \in EngineResults("complexityEngine"),
             red \in EngineResults("redundancyEngine"),
             fmt \in EngineResults("formatter") :
              AnalyzeStart("string", languageKnown, timeout,
                           [baseAnalyzer |-> base, bugLintEngine |-> bugLint,
                            securityRules |-> secRules, complexityEngine |-> cplx,
                            redundancyEngine |-> red, formatter |-> fmt])
    \/ \E code \in CodeArgs \ {"string"}, timeout \in AnalyzeTimeouts :
          AnalyzeStart(code, FALSE, timeout, NonStringSync)
    \/ \E code \in CodeArgs : AnalyzeThrows(code)
    \/ \E i \in 1..Len(tasks) : EngineSettles(i)
    \/ TaskTimer
    \/ StageTimer
    \/ Tick
    \/ \E w \in WeightOverrides : AnalyzeFinish(w)

SpecPipe == Init /\ [][PipeNext]_vars

----------------------------------------------------------------------------
(* Properties of ParallelStage.run *)

Settled(i) == outcome[i] # Pending

\* C1: for N registered tasks the array run() resolves to holds exactly one
\* StageResult per registered task, in registration order, whatever the tasks
\* do and whatever the two timeouts are.
C1_OneResultPerTask ==
    pc = "returned" =>
        /\ Len(returned) = Len(tasks)
        /\ \A i \in 1..Len(tasks) : returned[i].label = tasks[i].label

\* C2: when the stage deadline fires while some tasks are unsettled, run()
\* returns the outcomes already settled unchanged and reports every pending
\* task with status "timeout".
C2_StageDeadlineKeepsSettled ==
    (pc = "returned" /\ stageFired) =>
        /\ Len(returned) = Len(tasks)
        /\ \A i \in 1..Len(tasks) :
              IF Settled(i)
              THEN returned[i] = outcome[i]
              ELSE returned[i].status = "timeout"

\* C3: a task whose per-task timer fires before it settles resolves to a
\* StageResult with status "timeout"; a task that returns before its timer
\* fires resolves to status "fulfilled" with exactly the value it returned,
\* whatever its siblings and the timers do; and when every per-task race has
\* settled run() resolves to exactly these StageResults.
C3_PerTaskTimeoutIsolated ==
    /\ \A i \in 1..Len(outcome) :
          /\ wonBy[i] = "timer" =>
                /\ outcome[i].status = "timeout"
                /\ outcome[i].label = tasks[i].label
          /\ (wonBy[i] = "fn" /\ fnResult[i].kind = "return") =>
                /\ outcome[i].status = "fulfilled"
                /\ outcome[i].value = fnResult[i].value
                /\ outcome[i].label = tasks[i].label
    /\ (pc = "returned" /\ ~stageFired) => returned = outcome

\* C3 witness: run() has returned a task timed out by its timer next to a
\* sibling that settled later than time 0 with its own value.
C3_Witness ==
    /\ pc = "returned"
    /\ Len(returned) = 2
    /\ \E i, j \in 1..2 :
          /\ i # j
          /\ wonBy[i] = "timer"
          /\ returned[i].status = "timeout"
          /\ wonBy[j] = "fn"
          /\ returned[j].status = "fulfilled"
          /\ returned[j].value = Opaque("v2")
          /\ returned[j].durationMs > 0

\* C4: a task whose fn throws (or whose promise rejects) resolves to status
\* "rejected" carrying the error, run() resolves, and no sibling is affected.
C4_ThrowIsRejected ==
    \A i \in 1..Len(outcome) :
        (wonBy[i] = "fn" /\ fnResult[i].kind = "throw") =>
            /\ outcome[i].status = "rejected"
            /\ outcome[i].error = fnResult[i].error
            /\ \A j \in 1..Len(outcome) :
                  (j # i /\ wonBy[j] = "fn" /\ fnResult[j].kind = "return") =>
                      /\ outcome[j].status = "fulfilled"
                      /\ outcome[j].value = fnResult[j].value

----------------------------------------------------------------------------
(* Properties of score() and aggregate() *)

Scored == apc = "scored"
Aggregated == apc \in {"aggregated", "scored"} /\ aggregated # Thrown

\* the findings a report lists: report.issues and report.securityIssues
ReportedFindings(agg) == agg.issues \o agg.securityIssues

SeqToSet(sq) == {sq[k] : k \in 1..Len(sq)}

\* the items of the fulfilled array value of the engine `label`, or none
EngineItems(label) ==
    LET r == ByLabelGet(results, label)
    IN IF r # Undefined /\ r.status = "fulfilled" /\ r.value.kind = "array"
       THEN r.value.items ELSE << >>

\* C5: score() returns a score within [0,1] (0..10000 in 1/10000) for every
\* aggregated report and every numeric weight override, and so does the score
\* analyzeFile() computes with the same formula.
C5_ScoreWithinUnitInterval ==
    Scored => /\ scoring.score >= 0 /\ scoring.score <= 10000
              /\ fileReport.score >= 0 /\ fileReport.score <= 10000

\* C6: in the report every category penalty is min(1, sum of count x
\* multiplier) over the findings the report lists, and snapshot.issueCount is
\* the number of those findings: each complexity and redundancy finding is
\* counted exactly once.
C6_EachFindingCountedOnce ==
    Scored => /\ scoring.penaltyBreakdown = PenaltyBreakdown(ReportedFindings(aggregated))
              /\ scoring.snapshot.issueCount = Len(ReportedFindings(aggregated))

NoDuplicateKeys(issues) ==
    \A i, j \in 1..Len(issues) :
        (LineOrZero(issues[i]) = LineOrZero(issues[j])
            /\ issues[i].message = issues[j].message) => i = j

\* C8: the issues list aggregate() returns never holds two issues with the
\* same (line, message); deduplicating a deduplicated list changes nothing, so
\* aggregating the same outcomes again gives the same lists.
C8_NoDuplicateLineMessage ==
    Aggregated =>
        /\ NoDuplicateKeys(aggregated.issues)
        /\ NoDuplicateKeys(aggregated.securityIssues)
        /\ deduplicate(aggregated.issues) = aggregated.issues
        /\ deduplicate(aggregated.securityIssues) = aggregated.securityIssues
        /\ aggregate(results) = aggregated

C8_Witness ==
    /\ Aggregated
    /\ Len(EngineItems("baseAnalyzer")) >= 1
    /\ Len(EngineItems("bugLintEngine")) >= 1
    /\ DedupKey(EngineItems("baseAnalyzer")[1]) = DedupKey(EngineItems("bugLintEngine")[1])
    /\ Len(aggregated.issues) = 1

SemgrepLines ==
    {TheLine(i) : i \in {x \in SeqToSet(EngineItems("semgrepEngine")) : HasLine(x)}}

C10_LinelessSecurityKept ==
    Aggregated =>
        \A k \in 1..Len(results) :
            \A f \in SeqToSet(EngineItems(results[k].label)) :
                (f.category = "security" /\ ~HasLine(f)) =>
                    \E s \in SeqToSet(aggregated.securityIssues) :
                        ~HasLine(s) /\ s.message = f.message

----------------------------------------------------------------------------
(* Properties of analyze() under engine faults *)

\* the engine `label` gave aggregate() nothing: its outcome is rejected,
\* timeout, or absent from the stage results
Faulted(label) ==
    LET r == ByLabelGet(results, label)
    IN r = Undefined \/ r.status # "fulfilled"

FromEngines(labels) == UNION {SeqToSet(EngineItems(l)) : l \in labels}

\* C7: aggregate() never throws, so analyze() called with a string resolves
\* to a report whatever engines throw, reject or time out, and a category
\* whose engine's outcome is rejected, timeout or absent holds its
\* empty/default value.
C7_FaultedEngineGivesDefault ==
    /\ codeArg = "string" => apc # "rejected"
    /\ aggregated # Thrown
    /\ Scored =>
         /\ Faulted("complexityEngine") =>
               /\ aggregated.complexityMetrics.functions = << >>
               /\ aggregated.complexityMetrics.issues = << >>
         /\ Faulted("redundancyEngine") =>
               /\ aggregated.redundancy.duplicates = << >>
               /\ aggregated.redundancy.duplicateCount = 0
         /\ Faulted("formatter") => aggregated.formatting = FormattingValue("", "", 0)
         /\ Faulted("semgrepEngine") => aggregated.securityIssues = << >>
         /\ SeqToSet(aggregated.issues) \subseteq
               FromEngines({l \in {"baseAnalyzer", "bugLintEngine"} : ~Faulted(l)})
                 \cup SeqToSet(aggregated.complexityMetrics.issues)
                 \cup SeqToSet(aggregated.redundancy.issues)
         /\ \A l \in {"baseAnalyzer", "bugLintEngine"} :
               \A f \in SeqToSet(EngineItems(l)) :
                   f.category # "security" =>
                       \E s \in SeqToSet(aggregated.issues) : DedupKey(s) = DedupKey(f)
         /\ ~Faulted("formatter") =>
               aggregated.formatting = ByLabelGet(results, "formatter").value

C7_Witness ==
    /\ Scored
    /\ \E i \in 1..Len(results) : results[i].status = "rejected"
    /\ \E i \in 1..Len(results) : results[i].status = "timeout"
    /\ "baseAnalyzer" \notin LabelsOf(results)
    /\ Faulted("formatter") /\ aggregated.formatting = FormattingValue("", "", 0)
    /\ Len(aggregated.issues) >= 1

----------------------------------------------------------------------------
(* Properties of the report of analyze() *)

\* the engines analyze() registers that can return security findings which
\* aggregate() does not take from semgrepEngine
OtherSecuritySources == {"securityRules", "osvEngine", "baseAnalyzer"}

\* C11: a security finding returned by a fulfilled securityRules, osvEngine
\* or baseAnalyzer task of analyze() appears in the report, in securityIssues
\* or in issues.
C11_SecurityFindingsReported ==
    Scored =>
        \A l \in OtherSecuritySources :
            \A f \in SeqToSet(EngineItems(l)) :
                f.category = "security" =>
                    \E s \in SeqToSet(ReportedFindings(aggregated)) :
                        DedupKey(s) = DedupKey(f)

----------------------------------------------------------------------------
(* aggregate() and the order of the stage results *)

\* the stage results listed in the order p
Permuted(rs, p) == [k \in 1..Len(rs) |-> rs[p[k]]]

Orders(n) == {p \in [1..n -> 1..n] : \A a, b \in 1..n : p[a] = p[b] => a = b}

DistinctLabels(rs) == \A a, b \in 1..Len(rs) : rs[a].label = rs[b].label => a = b

\* C12: for outcomes with distinct labels every permutation of the
\* StageResult array gives the same aggregate() result (issues,
\* securityIssues, complexity metrics, redundancy, formatting, stage timing).
C12_OrderIndependent ==
    (Aggregated /\ DistinctLabels(results)) =>
        \A p \in Orders(Len(results)) : aggregate(Permuted(results, p)) = aggregated

C12_Witness ==
    /\ Aggregated
    /\ Len(results) >= 2
    /\ DistinctLabels(results)
    /\ Len(EngineItems("baseAnalyzer")) >= 1
    /\ Len(EngineItems("bugLintEngine")) >= 1
    /\ DedupKey(EngineItems("baseAnalyzer")[1]) = DedupKey(EngineItems("bugLintEngine")[1])
    /\ aggregated.issues = <<EngineItems("baseAnalyzer")[1]>>
    /\ aggregate(Permuted(results, <<2, 1>>)) = aggregated

----------------------------------------------------------------------------
(* Successive analyze() calls in one process: the module-level id counters *)

\* A JavaScript input, by the findings it triggers: a loose equality on
\* line 1, an eval() on line 2, a shadowed declaration on line 3.
Codes == [loose : BOOLEAN, eval : BOOLEAN, shadow : BOOLEAN]

\* uid() of detection/analyzers.ts after n earlier calls of it
IssueUid(n) == <<"issue", ToString(n + 1)>>

\* uid(prefix) of the AST engine after n earlier calls of it
AstUid(prefix, n) == <<"ast", prefix, ToString(n + 1)>>

\* analyzeJavaScript(code) with _issueCounter = c on entry
analyzeJavaScript(code, c) ==
    (IF code.loose
     THEN <<Issue(IssueUid(c), "bug", "warning", <<"Use === instead of ==.">>, {1})>>
     ELSE << >>)
    \o (IF code.eval
        THEN <<Issue(IssueUid(c + (IF code.loose THEN 1 ELSE 0)), "security", "error",
                     <<"eval() is dangerous">>, {2})>>
        ELSE << >>)

\* runBugLintEngine(code, "javascript") with _uid = u on entry
runBugLintEngine(code, u) ==
    IF code.shadow
    THEN <<Issue(AstUid("shadow", u), "bug", "warning",
                 <<"Variable", "x", "shadows a declaration in an outer scope.">>, {3})>>
    ELSE << >>

\* the fields of the PipelineReport that do not hold wall-clock readings
ReportOf(agg, sc) ==
    [issues |-> agg.issues,
     securityIssues |-> agg.securityIssues,
     penaltyBreakdown |-> sc.penaltyBreakdown,
     score |-> sc.score]

\* one whole analyze(code) call in which every engine completes
AnalyzeCall(code) ==
    /\ Len(history) < MaxCalls
    /\ LET base == analyzeJavaScript(code, issueCounter)
           ast == runBugLintEngine(code, astUid)
           rs == <<Fulfilled("baseAnalyzer", Arr(base), 0),
                   Fulfilled("bugLintEngine", Arr(ast), 0)>>
           agg == aggregate(rs)
       IN /\ issueCounter' = issueCounter + Len(base)
          /\ astUid' = astUid + Len(ast)
          /\ history' = Append(history,
                               [code |-> code, report |-> ReportOf(agg, score(agg, << >>))])
    /\ UNCHANGED <<stageVars, aggVars, entryVars, tmpVars, depVars, reportDiffVars, textDiffVars, detectVars>>

CallsNext == \E code \in Codes : AnalyzeCall(code)

SpecCalls == Init /\ [][CallsNext]_vars

\* C13: two analyze() calls of one process with the same code and options
\* return reports with identical issues (ids included), securityIssues,
\* penalties and score.
C13_SameCallSameReport ==
    \A i, j \in 1..Len(history) :
        history[i].code = history[j].code => history[i].report = history[j].report

----------------------------------------------------------------------------
(* diffReports() *)

\* issueKey(issue): `${category}:${severity}:${line ?? 0}:${message}`; the
\* category and severity names hold no colon and the line is a decimal, so two
\* keys are equal exactly when all four parts are.
issueKey(issue) ==
    <<issue.category, ":", issue.severity, ":", ToString(LineOrZero(issue)), ":",
      issue.message>>

KeysOf(issues) == {issueKey(issues[k]) : k \in 1..Len(issues)}

diffReports(old, new) ==
    LET oldAll == old.issues \o old.securityIssues
        newAll == new.issues \o new.securityIssues
        oldKeys == KeysOf(oldAll)
        newKeys == KeysOf(newAll)
        IsNew(i) == issueKey(i) \notin oldKeys
        IsResolved(i) == issueKey(i) \notin newKeys
    IN [kind |-> "diff",
        scoreDelta |-> new.score - old.score,
        newIssues |-> SelectSeq(newAll, IsNew),
        resolvedIssues |-> SelectSeq(oldAll, IsResolved)]

\* findings of two analyses of a file: the same finding at two severities,
\* a finding that moved to another line, a lineless one, a security one
DiffIssueLists ==
    LET loose == Issue(<<"issue", "1">>, "bug", "warning", <<"Use === instead of ==.">>, {1})
        looseErr == Issue(<<"issue", "1">>, "bug", "error", <<"Use === instead of ==.">>, {1})
        moved == Issue(<<"issue", "1">>, "bug", "warning", <<"Use === instead of ==.">>, {2})
        style == Issue(<<"issue", "2">>, "style", "info", <<"shared">>, NoLine)
    IN {<< >>, <<loose>>, <<looseErr>>, <<moved>>, <<style>>, <<loose, style>>,
        <<style, looseErr>>}

DiffSecurityLists ==
    {<< >>, <<Issue(<<"semgrep", "1">>, "security", "error", <<"[Semgrep]", "injection">>, {1})>>}

\* PipelineReport values, by the fields diffReports() reads
Reports ==
    [kind : {"report"}, issues : DiffIssueLists, securityIssues : DiffSecurityLists,
     score : {8500, 10000}]

PickReports(old, new) ==
    /\ rpc = "input"
    /\ oldReport' = old
    /\ newReport' = new
    /\ rpc' = "picked"
    /\ UNCHANGED <<stageVars, aggVars, entryVars, tmpVars, depVars, callVars, textDiffVars, detectVars, reportDiff>>

DiffReports ==
    /\ rpc = "picked"
    /\ reportDiff' = diffReports(oldReport, newReport)
    /\ rpc' = "diffed"
    /\ UNCHANGED <<stageVars, aggVars, entryVars, tmpVars, depVars, callVars, textDiffVars, detectVars,
                   oldReport, newReport>>

ReportDiffNext ==
    \/ \E old \in Reports, new \in Reports : PickReports(old, new)
    \/ DiffReports

SpecReportDiff == Init /\ [][ReportDiffNext]_vars

AllOf(report) == report.issues \o report.securityIssues

SameLineMessage(i, j) == LineOrZero(i) = LineOrZero(j) /\ i.message = j.message

\* C14: diffReports(old, new) returns scoreDelta = new.score - old.score,
\* newIssues = the issues of new whose (line, message) is on no issue of old,
\* resolvedIssues = the issues of old whose (line, message) is on no issue of
\* new; an issue in both reports with the same line and message is in neither.
C14_DiffByLineMessage ==
    rpc = "diffed" =>
        LET InOld(i) == \E j \in SeqToSet(AllOf(oldReport)) : SameLineMessage(i, j)
            InNew(i) == \E j \in SeqToSet(AllOf(newReport)) : SameLineMessage(i, j)
            NotInOld(i) == ~InOld(i)
            NotInNew(i) == ~InNew(i)
        IN /\ reportDiff.scoreDelta = newReport.score - oldReport.score
           /\ reportDiff.newIssues = SelectSeq(AllOf(newReport), NotInOld)
           /\ reportDiff.resolvedIssues = SelectSeq(AllOf(oldReport), NotInNew)

----------------------------------------------------------------------------
(* utils/diff.ts : strings are sequences of characters, "\n" among them *)

NL == "\n"

\* text.split("\n")
RECURSIVE Split(_)
Split(text) ==
    IF \A k \in 1..Len(text) : text[k] # NL THEN <<text>>
    ELSE LET k == CHOOSE i \in 1..Len(text) :
                      text[i] = NL /\ \A j \in 1..(i - 1) : text[j] # NL
         IN <<SubSeq(text, 1, k - 1)>> \o Split(SubSeq(text, k + 1, Len(text)))

\* lines.join("\n")
RECURSIVE Join(_)
Join(lines) ==
    IF lines = << >> THEN << >>
    ELSE IF Len(lines) = 1 THEN lines[1]
    ELSE lines[1] \o <<NL>> \o Join(Tail(lines))

\* line.startsWith(prefix)
LineStartsWith(line, prefix) ==
    Len(line) >= Len(prefix) /\ SubSeq(line, 1, Len(prefix)) = prefix

\* line.slice(n)
SliceFrom(line, n) == SubSeq(line, n + 1, Len(line))

\* array.slice(start, end) of JavaScript, indices counted from 0
Slice(arr, start, end) ==
    LET n == Len(arr)
        from == IF start < 0 THEN Max(n + start, 0) ELSE Min(start, n)
        to == IF end < 0 THEN Max(n + end, 0) ELSE Min(end, n)
    IN IF from < to THEN SubSeq(arr, from + 1, to) ELSE << >>

\* buildLCSTable(a, b): dp[i][j] is the LCS length of a[0..i) and b[0..j)
\* a table that was never filled
buildLCSTableLeftAtZero(a, b) == [i \in 0..Len(a), j \in 0..Len(b) |-> 0]

buildLCSTable(a, b) ==
    LET dp[i \in 0..Len(a), j \in 0..Len(b)] ==
            IF i = 0 \/ j = 0 THEN 0
            ELSE IF a[i] = b[j] THEN dp[i - 1, j - 1] + 1
            ELSE Max(dp[i - 1, j], dp[i, j - 1])
    IN dp

Edit(type, line, ai, bi) == [type |-> type, line |-> line, ai |-> ai, bi |-> bi]

\* the edits backtrack() has pushed when it stands at (i, j), oldest last;
\* the function returns them reversed
RECURSIVE BacktrackFrom(_, _, _, _, _)
BacktrackFrom(a, b, dp, i, j) ==
    IF i = 0 /\ j = 0 THEN << >>
    ELSE IF i > 0 /\ j > 0 /\ a[i] = b[j]
         THEN Append(BacktrackFrom(a, b, dp, i - 1, j - 1),
                     Edit("equal", a[i], {i - 1}, {j - 1}))
    ELSE IF j > 0 /\ (i = 0 \/ dp[i, j - 1] >= dp[i - 1, j])
         THEN Append(BacktrackFrom(a, b, dp, i, j - 1), Edit("insert", b[j], {}, {j - 1}))
    ELSE Append(BacktrackFrom(a, b, dp, i - 1, j), Edit("delete", a[i], {i - 1}, {}))

backtrack(a, b) == BacktrackFrom(a, b, buildLCSTable(a, b), Len(a), Len(b))

\* the ranges groupHunks() closes from the k-th changed index on, given the
\* open range start..end (indices counted from 0)
RECURSIVE RangesFrom(_, _, _, _, _, _)
RangesFrom(changed, k, start, end, ctx, n) ==
    IF k > Len(changed) THEN <<[start |-> start, end |-> end]>>
    ELSE LET ns == Max(0, changed[k] - ctx)
             ne == Min(n - 1, changed[k] + ctx)
         IN IF ns <= end + 1
            THEN RangesFrom(changed, k + 1, start, ne, ctx, n)
            ELSE <<[start |-> start, end |-> end]>>
                     \o RangesFrom(changed, k + 1, ns, ne, ctx, n)

\* a groupHunks that forgets the range still open when the loop ends
groupHunksWithoutLastRange(ops, ctx) ==
    LET n == Len(ops)
        Changed(i) == ops[i + 1].type # "equal"
        changedIndices == SelectSeq([i \in 1..n |-> i - 1], Changed)
    IN IF Len(changedIndices) = 0 THEN << >>
       ELSE LET ranges == RangesFrom(changedIndices, 2,
                                     Max(0, changedIndices[1] - ctx),
                                     Min(n - 1, changedIndices[1] + ctx), ctx, n)
            IN [r \in 1..(Len(ranges) - 1) |->
                   Slice(ops, ranges[r].start, ranges[r].end + 1)]

\* the indices (from 0) of the operations that are not equal, in order
ChangedIndices(ops) ==
    LET Changed(i) == ops[i + 1].type # "equal"
    IN SelectSeq([i \in 1..Len(ops) |-> i - 1], Changed)

\* the ranges groupHunks() has collected when it slices
HunkRanges(ops, ctx) ==
    LET n == Len(ops)
        changedIndices == ChangedIndices(ops)
    IN IF Len(changedIndices) = 0 THEN << >>
       ELSE RangesFrom(changedIndices, 2,
                       Max(0, changedIndices[1] - ctx),
                       Min(n - 1, changedIndices[1] + ctx), ctx, n)

groupHunks(ops, ctx) ==
    LET ranges == HunkRanges(ops, ctx)
    IN [r \in 1..Len(ranges) |-> Slice(ops, ranges[r].start, ranges[r].end + 1)]

\* the least of a set of numbers, 0 for the empty set (Infinity replaced by 0)
StartOf(ns) == IF ns = {} THEN 0 ELSE CHOOSE x \in ns : \A y \in ns : x <= y

Range(start, cnt) ==
    IF cnt = 1 THEN <<ToString(start)>> ELSE <<ToString(start), ",", ToString(cnt)>>

OnOriginal(op) == op.type \in {"equal", "delete"}
OnFormatted(op) == op.type \in {"equal", "insert"}

HunkStartA(hunkOps) == StartOf({x + 1 : x \in UNION {op.ai : op \in
                                   {o \in {hunkOps[k] : k \in 1..Len(hunkOps)} : OnOriginal(o)}}})
HunkStartB(hunkOps) == StartOf({x + 1 : x \in UNION {op.bi : op \in
                                   {o \in {hunkOps[k] : k \in 1..Len(hunkOps)} : OnFormatted(o)}}})
HunkCountA(hunkOps) == Len(SelectSeq(hunkOps, OnOriginal))
HunkCountB(hunkOps) == Len(SelectSeq(hunkOps, OnFormatted))

hunkHeader(hunkOps) ==
    <<"@", "@", " ", "-">> \o Range(HunkStartA(hunkOps), HunkCountA(hunkOps))
        \o <<" ", "+">> \o Range(HunkStartB(hunkOps), HunkCountB(hunkOps))
        \o <<" ", "@", "@">>

\* the output line of one edit
OpLine(op) ==
    (CASE op.type = "equal" -> <<" ">>
       [] op.type = "delete" -> <<"-">>
       [] op.type = "insert" -> <<"+">>) \o op.line

RECURSIVE HunkLines(_)
HunkLines(hunks) ==
    IF hunks = << >> THEN << >>
    ELSE <<hunkHeader(Head(hunks))>> \o [k \in 1..Len(Head(hunks)) |-> OpLine(Head(hunks)[k])]
             \o HunkLines(Tail(hunks))

OriginalHeader == <<"-", "-", "-", " ", "a/original">>
FormattedHeader == <<"+", "+", "+", " ", "b/formatted">>

\* the hunks generateUnifiedDiff() computes
HunksOf(a, b, ctxOpt) == groupHunks(backtrack(Split(a), Split(b)), OptionOr(ctxOpt, 3))

generateUnifiedDiff(a, b, ctxOpt) ==
    IF a = b THEN << >>
    ELSE LET hunks == HunksOf(a, b, ctxOpt)
         IN IF Len(hunks) = 0 THEN << >>
            ELSE Join(<<OriginalHeader, FormattedHeader>> \o HunkLines(hunks)) \o <<NL>>

\* the numbers a hunk header of these inputs can hold
HeaderNumbers == 0..(2 * MaxLines + 2)

\* /\d+/ on one token, and parseInt of it
IsDigits(tok) == \E n \in HeaderNumbers : ToString(n) = tok
ParseInt(tok) == CHOOSE n \in HeaderNumbers : ToString(n) = tok

\* the tokens of line from position k on that /(\d+)(?:,(\d+))?/ consumes:
\* [ok, first, second (absent: {}), next position]
MatchRange(line, k) ==
    IF k > Len(line) \/ ~IsDigits(line[k])
    THEN [ok |-> FALSE, first |-> 0, second |-> {}, next |-> k]
    ELSE IF k + 2 <= Len(line) /\ line[k + 1] = "," /\ IsDigits(line[k + 2])
         THEN [ok |-> TRUE, first |-> ParseInt(line[k]),
               second |-> {ParseInt(line[k + 2])}, next |-> k + 3]
         ELSE [ok |-> TRUE, first |-> ParseInt(line[k]), second |-> {}, next |-> k + 1]

\* line.match(/@@ -(\d+)(?:,(\d+))? \+(\d+)(?:,(\d+))? @@/) on a line that
\* starts with "@@ " : the groups, or ok = FALSE for null
MatchHeader(line) ==
    LET a == MatchRange(line, 5)
        b == MatchRange(line, a.next + 2)
        none == [ok |-> FALSE, m1 |-> 0, m2 |-> {}, m3 |-> 0, m4 |-> {}]
    IN IF /\ LineStartsWith(line, <<"@", "@", " ", "-">>)
          /\ a.ok
          /\ LineStartsWith(SliceFrom(line, a.next - 1), <<" ", "+">>)
          /\ b.ok
          /\ LineStartsWith(SliceFrom(line, b.next - 1), <<" ", "@", "@">>)
       THEN [ok |-> TRUE, m1 |-> a.first, m2 |-> a.second, m3 |-> b.first, m4 |-> b.second]
       ELSE none

NoHunk == [kind |-> "null"]

\* the DiffHunk parseDiff() opens on a line that starts with "@@ "
OpenHunk(line) ==
    LET m == MatchHeader(line)
    IN [kind |-> "hunk",
        header |-> line,
        originalStart |-> IF m.ok THEN m.m1 ELSE 0,
        originalCount |-> IF m.ok THEN OptionOr(m.m2, 1) ELSE 0,
        formattedStart |-> IF m.ok THEN m.m3 ELSE 0,
        formattedCount |-> IF m.ok THEN OptionOr(m.m4, 1) ELSE 0,
        lines |-> << >>]

DiffLine(line) ==
    IF LineStartsWith(line, <<"+">>) THEN {[type |-> "insert", content |-> SliceFrom(line, 1)]}
    ELSE IF LineStartsWith(line, <<"-">>)
         THEN {[type |-> "delete", content |-> SliceFrom(line, 1)]}
    ELSE IF LineStartsWith(line, <<" ">>)
         THEN {[type |-> "context", content |-> SliceFrom(line, 1)]}
    ELSE {}

\* one iteration of the loop of parseDiff()
ParseLine(st, line) ==
    IF LineStartsWith(line, <<"-", "-", "-", " ">>)
    THEN [st EXCEPT !.originalFile = SliceFrom(line, 4)]
    ELSE IF LineStartsWith(line, <<"+", "+", "+", " ">>)
    THEN [st EXCEPT !.formattedFile = SliceFrom(line, 4)]
    ELSE IF LineStartsWith(line, <<"@", "@", " ">>)
    THEN [st EXCEPT !.hunks = IF st.current # NoHunk THEN Append(@, st.current) ELSE @,
                    !.current = OpenHunk(line)]
    ELSE IF st.current # NoHunk /\ DiffLine(line) # {}
    THEN [st EXCEPT !.current.lines = Append(@, CHOOSE d \in DiffLine(line) : TRUE)]
    ELSE st

RECURSIVE ParseFrom(_, _, _)
ParseFrom(lines, k, st) ==
    IF k > Len(lines) THEN st ELSE ParseFrom(lines, k + 1, ParseLine(st, lines[k]))

parseDiff(text) ==
    LET st == ParseFrom(Split(text), 1,
                        [originalFile |-> << >>, formattedFile |-> << >>,
                         hunks |-> << >>, current |-> NoHunk])
    IN [kind |-> "parsed",
        originalFile |-> st.originalFile,
        formattedFile |-> st.formattedFile,
        hunks |-> IF st.current # NoHunk THEN Append(st.hunks, st.current) ELSE st.hunks]

diffStats(text) ==
    LET lines == Split(text)
        IsAddition(l) == LineStartsWith(l, <<"+">>) /\ ~LineStartsWith(l, <<"+", "+", "+">>)
        IsDeletion(l) == /\ ~IsAddition(l)
                         /\ LineStartsWith(l, <<"-">>)
                         /\ ~LineStartsWith(l, <<"-", "-", "-">>)
        additions == Len(SelectSeq(lines, IsAddition))
        deletions == Len(SelectSeq(lines, IsDeletion))
    IN [kind |-> "stats", additions |-> additions, deletions |-> deletions,
        changed |-> additions > 0 \/ deletions > 0]

\* Lines of source files: plain code, an SQL/Lua comment, a pre-increment
LinePool == {<<"x">>, <<"-", "-", " ", "c">>, <<"+", "+", "i">>}

LineLists == UNION {[1..n -> LinePool] : n \in 1..MaxLines}

\* the strings handed to generateUnifiedDiff(): the empty string and texts
\* of 1..MaxLines lines
Texts == {<< >>} \cup {Join(ls) : ls \in LineLists}

\* options.contextLines: absent (3), 0, -1
ContextOptions == {{}, {0}, {0 - 1}}

\* diff texts that no generator wrote: hunk headers that do not parse, lines
\* before any hunk, a header without counts
SuppliedDiffs ==
    {Join(ls) : ls \in
        {<<<<"@", "@", " ", "x">>, <<"+", "x">>>>,
         <<<<"+", "x">>, <<"@", "@", " ", "-", "1", " ", "+", "1", " ", "@", "@">>, <<"-", "x">>>>,
         <<<<"@", "@", " ", "-", "1", ",", "2", " ", "+", "x", " ", "@", "@">>, <<" ", "x">>,
           <<"@", "@", " ", "-", "2", " ", "+", "2", ",", "0", " ", "@", "@">>, <<"x">>>>,
         <<<<"-", "-", "-", " ", "a">>, <<"@", "@", " ">>, <<"@", "@">>>>,
         <<<<>>>>}}

PickTexts(a, b, ctxOpt) ==
    /\ tpc = "input"
    /\ originalCode' = a
    /\ formattedCode' = b
    /\ contextLines' = ctxOpt
    /\ tpc' = "picked"
    /\ UNCHANGED <<stageVars, aggVars, entryVars, tmpVars, depVars, callVars, reportDiffVars, detectVars,
                   diffText, parsed, stats>>

\* a caller hands parseDiff() a diff text of its own
SupplyDiff(text) ==
    /\ tpc = "input"
    /\ diffText' = text
    /\ tpc' = "supplied"
    /\ UNCHANGED <<stageVars, aggVars, entryVars, tmpVars, depVars, callVars, reportDiffVars, detectVars,
                   originalCode, formattedCode, contextLines, parsed, stats>>

GenerateUnifiedDiff ==
    /\ tpc = "picked"
    /\ diffText' = generateUnifiedDiff(originalCode, formattedCode, contextLines)
    /\ tpc' = "generated"
    /\ UNCHANGED <<stageVars, aggVars, entryVars, tmpVars, depVars, callVars, reportDiffVars, detectVars,
                   originalCode, formattedCode, contextLines, parsed, stats>>

DiffStats ==
    /\ tpc = "generated"
    /\ stats' = diffStats(diffText)
    /\ tpc' = "measured"
    /\ UNCHANGED <<stageVars, aggVars, entryVars, tmpVars, depVars, callVars, reportDiffVars, detectVars,
                   originalCode, formattedCode, contextLines, diffText, parsed>>

ParseDiff ==
    /\ tpc \in {"measured", "supplied"}
    /\ parsed' = parseDiff(diffText)
    /\ tpc' = IF tpc = "measured" THEN "parsed" ELSE "suppliedParsed"
    /\ UNCHANGED <<stageVars, aggVars, entryVars, tmpVars, depVars, callVars, reportDiffVars, detectVars,
                   originalCode, formattedCode, contextLines, diffText, stats>>

TextDiffNext ==
    \/ \E a \in Texts, b \in Texts, ctxOpt \in ContextOptions : PickTexts(a, b, ctxOpt)
    \/ \E text \in SuppliedDiffs : SupplyDiff(text)
    \/ GenerateUnifiedDiff
    \/ DiffStats
    \/ ParseDiff

SpecTextDiff == Init /\ [][TextDiffNext]_vars

----------------------------------------------------------------------------
(* Properties of generateUnifiedDiff(), diffStats() and parseDiff() *)

Generated == tpc \in {"generated", "measured", "parsed"}

IsHunkHeaderLine(l) == LineStartsWith(l, <<"@", "@", " ">>)

HunkHeaderCount(text) == Len(SelectSeq(Split(text), IsHunkHeaderLine))

\* C15: generateUnifiedDiff(a, b) is the empty string when a = b, whatever
\* contextLines is, and a non-empty diff with at least one hunk when a # b.
C15_EmptyIffIdentical ==
    Generated =>
        IF originalCode = formattedCode
        THEN diffText = << >>
        ELSE diffText # << >> /\ HunkHeaderCount(diffText) >= 1

C15_Witness ==
    /\ Generated
    /\ originalCode # formattedCode
    /\ contextLines = {0}
    /\ HunkHeaderCount(diffText) = 2

IsInsert(op) == op.type = "insert"
IsDelete(op) == op.type = "delete"

RECURSIVE Flatten(_)
Flatten(seqs) == IF seqs = << >> THEN << >> ELSE Head(seqs) \o Flatten(Tail(seqs))

\* the edits the generated diff lists
DiffOps == Flatten(HunksOf(originalCode, formattedCode, contextLines))

\* C16: diffStats(generateUnifiedDiff(a, b)) has additions = the number of
\* inserted lines of the diff and deletions = the number of deleted lines,
\* whatever the lines begin with; changed is true exactly when a # b; and
\* diffStats("") is {additions: 0, deletions: 0, changed: false}.
C16_StatsCountEdits ==
    /\ diffStats(<< >>) = [kind |-> "stats", additions |-> 0, deletions |-> 0,
                           changed |-> FALSE]
    /\ tpc \in {"measured", "parsed"} =>
          /\ stats.additions = Len(SelectSeq(DiffOps, IsInsert))
          /\ stats.deletions = Len(SelectSeq(DiffOps, IsDelete))
          /\ stats.changed <=> (originalCode # formattedCode)

\* the DiffHunk a generated hunk reads back as
ExpectedHunk(hunkOps) ==
    [kind |-> "hunk",
     header |-> hunkHeader(hunkOps),
     originalStart |-> HunkStartA(hunkOps),
     originalCount |-> HunkCountA(hunkOps),
     formattedStart |-> HunkStartB(hunkOps),
     formattedCount |-> HunkCountB(hunkOps),
     lines |-> [k \in 1..Len(hunkOps) |->
                  [type |-> IF hunkOps[k].type = "equal" THEN "context" ELSE hunkOps[k].type,
                   content |-> hunkOps[k].line]]]

\* C17: for a # b, parseDiff(generateUnifiedDiff(a, b)) holds the two file
\* names the generator wrote and one hunk per generated hunk, with the start
\* and count fields of its header and exactly its context, delete and insert
\* lines in order.
C17_ParseInvertsGenerate ==
    (tpc = "parsed" /\ originalCode # formattedCode) =>
        LET hunks == HunksOf(originalCode, formattedCode, contextLines)
        IN /\ parsed.originalFile = SliceFrom(OriginalHeader, 4)
           /\ parsed.formattedFile = SliceFrom(FormattedHeader, 4)
           /\ parsed.hunks = [h \in 1..Len(hunks) |-> ExpectedHunk(hunks[h])]

\* a line parseDiff() takes for a hunk header
ReadAsHunkHeader(l) ==
    /\ ~LineStartsWith(l, <<"-", "-", "-", " ">>)
    /\ ~LineStartsWith(l, <<"+", "+", "+", " ">>)
    /\ IsHunkHeaderLine(l)

ParseableHeader(l) == ReadAsHunkHeader(l) /\ MatchHeader(l).ok

\* C18: parseDiff() returns on malformed input, and a line starting with
\* "@@ " whose header does not parse adds no hunk: the hunks are those of the
\* parseable headers.
C18_MalformedHeaderSkipped ==
    tpc = "suppliedParsed" =>
        /\ parsed.kind = "parsed"
        /\ Len(parsed.hunks) = Len(SelectSeq(Split(diffText), ParseableHeader))

\* ---------------------------------------------------------------------------
\* Language detection (detection.ts): detectLanguage() and its three layers.
\* A file name is a sequence of one-character strings.  The content is held by
\* what the layers read of it: its length and trimmed length, the number of
\* control characters in its first 512 characters, the words of its first
\* line, and for each language the signature groups of which some pattern
\* matches the first SAMPLE_SIZE characters.
\* ---------------------------------------------------------------------------

\* Object.keys(LANGUAGE_SIGNATURES), in insertion order
Languages == <<"javascript", "typescript", "python", "java", "c", "cpp">>

LanguageSet == {Languages[i] : i \in 1..Len(Languages)}

\* the weight of each signature group, in halves (1.5 is 3)
LANGUAGE_SIGNATURES ==
    [javascript |-> <<4, 2, 2, 4, 4, 3>>,
     typescript |-> <<6, 6, 4, 6, 4, 4>>,
     python     |-> <<6, 4, 4, 6, 6, 2>>,
     java       |-> <<6, 6, 4, 6, 4, 4>>,
     c          |-> <<6, 6, 6, 4, 3>>,
     cpp        |-> <<6, 6, 4, 6, 4, 4>>]

\* a number of the detection code, as an exact fraction
Frac(n, d) == [num |-> n, den |-> d]

FracLess(a, b) == a.num * b.den < b.num * a.den

FracEq(a, b) == a.num * b.den = b.num * a.den

FracMul(a, b) == Frac(a.num * b.num, a.den * b.den)

\* Math.min
FracMin(a, b) == IF FracLess(b, a) THEN b ELSE a

\* Math.abs(a - b)
FracAbsDiff(a, b) ==
    LET d == a.num * b.den - b.num * a.den
    IN  Frac(IF d < 0 THEN 0 - d ELSE d, a.den * b.den)

MAX_CONFIDENCE == Frac(9, 10)

Result(language, confidence, method) ==
    [language |-> language, confidence |-> confidence, method |-> method]

UnknownResult == Result("unknown", Frac(0, 1), "unknown")

\* String.prototype.toLowerCase, on the letters file names are drawn from
LowerOf(ch) ==
    CASE ch = "A" -> "a"
      [] ch = "P" -> "p"
      [] ch = "Y" -> "y"
      [] ch = "T" -> "t"
      [] ch = "S" -> "s"
      [] OTHER -> ch

toLowerCase(name) == [i \in 1..Len(name) |-> LowerOf(name[i])]

EXT_MAP ==
    [ext \in {<<".", "j", "s">>, <<".", "j", "s", "x">>, <<".", "m", "j", "s">>,
              <<".", "c", "j", "s">>} |-> "javascript"]
    @@ [ext \in {<<".", "t", "s">>, <<".", "t", "s", "x">>, <<".", "m", "t", "s">>,
                 <<".", "c", "t", "s">>} |-> "typescript"]
    @@ [ext \in {<<".", "p", "y">>, <<".", "p", "y", "w">>} |-> "python"]
    @@ [ext \in {<<".", "j", "a", "v", "a">>} |-> "java"]
    @@ [ext \in {<<".", "c">>, <<".", "h">>} |-> "c"]
    @@ [ext \in {<<".", "c", "p", "p">>, <<".", "c", "c">>, <<".", "c", "x", "x">>,
                 <<".", "h", "p", "p">>, <<".", "h", "x", "x">>} |-> "cpp"]

\* the match of /(\.[^.]+)$/ : the last dot and what follows it, when
\* something follows it; a set of at most one extension
ExtensionMatch(name) ==
    LET dots == {i \in 1..Len(name) : name[i] = "."}
    IN  IF dots = {} THEN {}
        ELSE LET last == CHOOSE i \in dots : \A j \in dots : j <= i
             IN  IF last = Len(name) THEN {}
                 ELSE {SubSeq(name, last, Len(name))}

\* a set of at most one DetectionResult: empty where the code returns null
detectByExtension(name) ==
    LET match == ExtensionMatch(toLowerCase(name))
    IN  IF match = {} THEN {}
        ELSE LET ext == CHOOSE e \in match : TRUE
             IN  IF ext \notin DOMAIN EXT_MAP THEN {}
                 ELSE {Result(EXT_MAP[ext], Frac(1, 1), "extension")}

\* the words a shebang pattern is found in: /node/ is found in ts-node too
PatternWords(pattern) ==
    CASE pattern = "python3?" -> {"python", "python3"}
      [] pattern = "ts-node" -> {"ts-node"}
      [] pattern = "node" -> {"node", "ts-node"}

SHEBANG_PATTERNS ==
    <<[pattern |-> "python3?", language |-> "python"],
      [pattern |-> "ts-node", language |-> "typescript"],
      [pattern |-> "node", language |-> "javascript"]>>

\* pattern.test(firstLine)
PatternTest(pattern, line) ==
    \E i \in 1..Len(line) : line[i] \in PatternWords(pattern)

\* String.prototype.trim on a line of words: blanks at both ends go
RECURSIVE TrimStart(_)
TrimStart(line) ==
    IF line # << >> /\ Head(line) = " " THEN TrimStart(Tail(line)) ELSE line

RECURSIVE TrimEnd(_)
TrimEnd(line) ==
    IF line # << >> /\ line[Len(line)] = " "
    THEN TrimEnd(SubSeq(line, 1, Len(line) - 1))
    ELSE line

Trim(line) == TrimEnd(TrimStart(line))

detectByShebang(code) ==
    LET firstLine == Trim(code.firstLine)
        hits == {i \in 1..Len(SHEBANG_PATTERNS) :
                    PatternTest(SHEBANG_PATTERNS[i].pattern, firstLine)}
    IN  IF ~(firstLine # << >> /\ Head(firstLine) = "#!") THEN {}
        ELSE IF hits = {} THEN {}
        ELSE LET first == CHOOSE i \in hits : \A j \in hits : i <= j
             IN  {Result(SHEBANG_PATTERNS[first].language, Frac(95, 100), "shebang")}

\* the sum of the weights of the groups in gs
RECURSIVE WeightOf(_, _)
WeightOf(sigs, gs) ==
    IF gs = {} THEN 0
    ELSE LET g == CHOOSE x \in gs : TRUE
         IN  sigs[g] + WeightOf(sigs, gs \ {g})

scoreLanguage(code, lang) ==
    LET sigs == LANGUAGE_SIGNATURES[lang]
        total == WeightOf(sigs, DOMAIN sigs)
        matched == WeightOf(sigs, code.matched[lang])
    IN  IF total = 0 THEN Frac(0, 1) ELSE Frac(matched, total)

\* Array.prototype.sort with (a, b) => b.raw - a.raw : descending and stable
RECURSIVE InsertScore(_, _)
InsertScore(sorted, x) ==
    IF sorted = << >> THEN <<x>>
    ELSE IF FracLess(Head(sorted).raw, x.raw) THEN <<x>> \o sorted
    ELSE <<Head(sorted)>> \o InsertScore(Tail(sorted), x)

RECURSIVE SortScores(_)
SortScores(scores) ==
    IF scores = << >> THEN << >>
    ELSE InsertScore(SortScores(SubSeq(scores, 1, Len(scores) - 1)),
                     scores[Len(scores)])

preferOrder == <<"typescript", "cpp", "java", "python", "javascript", "c">>

\* what the syntax layer returns for a winner on the tie path (factor 0.9)
\* and otherwise (factor 0.95)
TieConfidence(raw) == FracMin(FracMul(raw, Frac(9, 10)), MAX_CONFIDENCE)

BestConfidence(raw) == FracMin(FracMul(raw, Frac(95, 100)), MAX_CONFIDENCE)

detectBySyntax(code) ==
    LET scores == SortScores([i \in 1..Len(Languages) |->
                     [language |-> Languages[i], raw |-> scoreLanguage(code, Languages[i])]])
        best == scores[1]
        second == scores[2]
        isTie == FracLess(FracAbsDiff(best.raw, second.raw), Frac(5, 100))
        preferred == {i \in 1..Len(preferOrder) :
                         preferOrder[i] \in {best.language, second.language}}
        first == CHOOSE i \in preferred : \A j \in preferred : i <= j
        winner == IF preferOrder[first] = best.language THEN best ELSE second
    IN  IF best.raw.num = 0 THEN {}
        ELSE IF isTie
             THEN {Result(winner.language, TieConfidence(winner.raw), "syntax")}
             ELSE {Result(best.language, BestConfidence(best.raw), "syntax")}

\* the guard of detectLanguage(): empty or blank content, or more than 10%
\* control characters in the first 512 characters
Degenerate(code) ==
    LET sample512 == Min(code.length, 512)
    IN  \/ code.length = 0
        \/ code.trimmed = 0
        \/ code.nonPrintable * 10 > sample512

\* the first layer that returns a result, else the unknown result
FirstOfLayers(layers) ==
    LET hits == {i \in 1..Len(layers) : layers[i] # {}}
    IN  IF hits = {} THEN UnknownResult
        ELSE LET first == CHOOSE i \in hits : \A j \in hits : i <= j
             IN  CHOOSE r \in layers[first] : TRUE

\* a detectLanguage() that asks the extension before it looks at the content
detectLanguageExtensionFirst(code, name) ==
    FirstOfLayers(<<IF name # << >> THEN detectByExtension(name) ELSE {},
                    IF Degenerate(code) THEN {UnknownResult} ELSE {},
                    detectByShebang(code),
                    detectBySyntax(code)>>)

detectLanguage(code, name) ==
    IF Degenerate(code) THEN UnknownResult
    ELSE FirstOfLayers(<<IF name # << >> THEN detectByExtension(name) ELSE {},
                         detectByShebang(code),
                         detectBySyntax(code)>>)

\* the groups of the languages that match: any groups of one language p and,
\* of one other language q, none, the first or all
Matched(p, gs, q, hs) ==
    [lang \in LanguageSet |-> IF lang = p THEN gs ELSE IF lang = q THEN hs ELSE {}]

GroupsOf(lang) == DOMAIN LANGUAGE_SIGNATURES[lang]

NoMatch == [lang \in LanguageSet |-> {}]

FirstLines ==
    {<< >>,
     <<"#!", "/usr/bin/env", " ", "python3">>,
     <<" ", "#!", "/usr/bin/", "ts-node", " ">>,
     <<"#!", "/bin/", "sh">>,
     <<"//", " ", "node">>}

Code(length, trimmed, nonPrintable, firstLine, matched) ==
    [length |-> length, trimmed |-> trimmed, nonPrintable |-> nonPrintable,
     firstLine |-> firstLine, matched |-> matched]

\* the empty string and a line of blanks
DegenerateContents == {Code(0, 0, 0, << >>, NoMatch), Code(8, 0, 0, <<" ">>, NoMatch)}

\* 200 characters of which none, a tenth or more than a tenth are control
\* characters
ControlCounts == {0, 20, 21}

MatchedSets ==
    UNION {{Matched(pq[1], gs, pq[2], hs) :
                gs \in SUBSET GroupsOf(pq[1]), hs \in {{}, {1}, GroupsOf(pq[2])}} :
            pq \in {lp \in LanguageSet \X LanguageSet : lp[1] # lp[2]}}

\* no group of any language matches, or all groups of one language do
FullMatches == {NoMatch} \cup {Matched(p, GroupsOf(p), p, {}) : p \in LanguageSet}

\* texts the syntax layer is asked about: no shebang the layer before it knows
SyntaxContents ==
    {Code(200, 200, 0, firstLine, matched) :
        firstLine \in {<< >>, <<"#!", "/bin/", "sh">>}, matched \in MatchedSets}

\* texts with every first line and every number of control characters
LayerContents ==
    {Code(200, 200, nonPrintable, firstLine, matched) :
        nonPrintable \in ControlCounts, firstLine \in FirstLines, matched \in FullMatches}

\* texts in which several languages match their first group and nothing else
MixedContents ==
    {Code(200, 200, 0, << >>, [lang \in LanguageSet |-> IF lang \in ls THEN {1} ELSE {}]) :
        ls \in SUBSET LanguageSet}

Contents == DegenerateContents \cup SyntaxContents \cup LayerContents \cup MixedContents

Filenames ==
    {<< >>,
     <<"a", ".", "t", "s">>,
     <<"A", ".", "P", "Y">>,
     <<"a", ".", "r", "b">>,
     <<"a", ".">>}

\* detectLanguage(code, filename)
DetectLanguage ==
    /\ dpc = "input"
    /\ \E code \in Contents, name \in Filenames :
        /\ sample' = code
        /\ filename' = name
        /\ detection' = detectLanguage(code, name)
    /\ dpc' = "detected"
    /\ UNCHANGED <<stageVars, aggVars, entryVars, tmpVars, depVars, callVars, reportDiffVars, textDiffVars>>

DetectNext == DetectLanguage

SpecDetect == Init /\ [][DetectNext]_vars

Detected == dpc = "detected"

\* what the guard is said to reject: empty or blank content, or more than a
\* tenth of the first 512 characters being control characters
DegenerateInput ==
    \/ sample.trimmed = 0
    \/ 10 * sample.nonPrintable > Min(sample.length, 512)

\* the extension layer's answer for the file name of the call, if any
ByExtension == IF filename = << >> THEN {} ELSE detectByExtension(filename)

\* C19: detectLanguage returns the answer of the first step that applies, in
\* the order guard, extension, shebang, syntax: degenerate content gives
\* {unknown, 0, unknown} even with a file name; otherwise a known extension
\* gives its language with confidence exactly 1.0 and method "extension"
\* whatever the content; otherwise a recognised shebang gives its result;
\* otherwise the syntax layer's result; otherwise {unknown, 0, unknown}.
C19_LayersInFixedOrder ==
    Detected =>
        IF DegenerateInput
        THEN detection = UnknownResult
        ELSE IF ByExtension # {}
        THEN /\ detection \in ByExtension
             /\ detection.method = "extension"
             /\ detection.confidence.num = detection.confidence.den
        ELSE IF detectByShebang(sample) # {}
        THEN detection \in detectByShebang(sample) /\ detection.method = "shebang"
        ELSE IF detectBySyntax(sample) # {}
        THEN detection \in detectBySyntax(sample) /\ detection.method = "syntax"
        ELSE detection = UnknownResult

\* a text with a shebang and syntax of other languages than its known
\* extension was answered by extension
C19_Witness ==
    /\ Detected
    /\ ~DegenerateInput
    /\ detection.method = "extension"
    /\ \E she \in detectByShebang(sample) : she.language # detection.language
    /\ \E syn \in detectBySyntax(sample) : syn.language # detection.language

\* C20: whenever the result has method "syntax", its confidence is strictly
\* below 0.9, whichever signature groups matched.
C20_SyntaxConfidenceBelowCap ==
    (Detected /\ detection.method = "syntax") =>
        FracLess(detection.confidence, Frac(9, 10))

\* the score of a language on the text of the call
RawOf(lang) == scoreLanguage(sample, lang)

\* the languages no other language scores higher than
TopScoring == {l \in LanguageSet : \A k \in LanguageSet : ~FracLess(RawOf(l), RawOf(k))}

\* the languages whose score is within 0.05 of the best score
NearBest ==
    {l \in LanguageSet :
        \E top \in TopScoring : FracLess(FracAbsDiff(RawOf(top), RawOf(l)), Frac(5, 100))}

\* the first language of the preference order among ls
MostPreferred(ls) ==
    preferOrder[CHOOSE i \in 1..Len(preferOrder) :
                    /\ preferOrder[i] \in ls
                    /\ \A j \in 1..(i - 1) : preferOrder[j] \notin ls]

\* C21: a syntax result names, when a second language scores within 0.05 of
\* the best, the most preferred (typescript, cpp, java, python, javascript, c)
\* of the languages within 0.05 of the best, and otherwise the one
\* highest-scoring language.
C21_TieBrokenByPreference ==
    (Detected /\ detection.method = "syntax") =>
        IF Cardinality(NearBest) >= 2
        THEN detection.language = MostPreferred(NearBest)
        ELSE detection.language \in TopScoring

\* ---------------------------------------------------------------------------
\* Temporary files: runSemgrepEngine (engine/semgrep-engine.ts),
\* analyzeWithSemgrep (engines/semgrep/semgrepEngine.ts) and
\* runTeamSecurityEngine (engine/security-adapter.ts) write the code to a file
\* for a process or a scanner to read.  A path is a sequence of name parts.
\* ---------------------------------------------------------------------------

\* the last value Date.now() takes
MaxClock == 1

\* the random suffixes mkdtempSync can append
Suffixes == {"a", "b", "c"}

otherThanTmp ==
    <<stageVars, aggVars, entryVars, callVars, reportDiffVars, textDiffVars,
      detectVars, depVars>>

Invocation(engine, at, dir, file, result) ==
    [engine |-> engine, pc |-> at, dir |-> dir, file |-> file, result |-> result]

\* mkdtempSync(join(tmpdir(), prefix)) : a directory that did not exist
TempDir(prefix, sfx) == <<prefix, sfx>>

\* the random suffix makes a name that does not exist and was not used before
Fresh(dir) == dir \notin tmpFiles /\ \A j \in DOMAIN inv : inv[j].dir # dir

\* join(tmpDir, `code.${ext}`)
FileIn(dir) == dir \o <<"code">>

\* path.join(os.tmpdir(), `temp_analysis_${Date.now()}.${fileExtension}`)
TempAnalysisPath(ms) == <<"temp_analysis_", ToString(ms)>>

\* unlinkSync(file) then rmdirSync(dir), each in its own try/catch: a
\* directory is removed only when it is empty
Cleanup(files, dir, file) ==
    LET unlinked == files \ {file}
    IN  IF \E f \in unlinked : Len(f) > Len(dir) /\ SubSeq(f, 1, Len(dir)) = dir
        THEN unlinked
        ELSE unlinked \ {dir}

\* runSemgrepEngine() up to its await: mkdtempSync, writeFileSync, execFile
RunSemgrepEngine(i, sfx, how) ==
    /\ inv[i].pc = "idle"
    /\ Fresh(TempDir("semgrep-", sfx))
    /\ LET dir == TempDir("semgrep-", sfx)
           file == FileIn(dir)
       IN  CASE how = "mkdtempFails" ->
                  /\ tmpFiles' = tmpFiles
                  /\ inv' = [inv EXCEPT ![i] =
                                Invocation("runSemgrepEngine", "done", << >>, << >>, "empty")]
             [] how = "writeFails" ->
                  /\ tmpFiles' = tmpFiles \cup {dir}
                  /\ inv' = [inv EXCEPT ![i] =
                                Invocation("runSemgrepEngine", "done", dir, file, "empty")]
             [] how = "spawned" ->
                  /\ tmpFiles' = tmpFiles \cup {dir, file}
                  /\ inv' = [inv EXCEPT ![i] =
                                Invocation("runSemgrepEngine", "running", dir, file, "")]
    /\ UNCHANGED <<otherThanTmp, clockMs>>

\* the callback of execFile: the process ended (output, unparseable output,
\* ENOENT, failure, or killed at its timeout); the files are removed first
SemgrepCallback(i, how) ==
    /\ inv[i].engine = "runSemgrepEngine"
    /\ inv[i].pc \in {"running", "returned"}
    /\ tmpFiles' = Cleanup(tmpFiles, inv[i].dir, inv[i].file)
    /\ inv' = [inv EXCEPT ![i].pc = IF inv[i].pc = "running" THEN "done" ELSE "over",
                          ![i].result = IF inv[i].pc = "returned" THEN @
                                        ELSE IF how = "output" THEN "issues" ELSE "empty"]
    /\ UNCHANGED <<otherThanTmp, clockMs>>

\* the timer of timeoutReject(SEMGREP_TIMEOUT_MS) wins the race: the engine
\* returns [] while the callback of execFile has not run
SemgrepTimeout(i) ==
    /\ inv[i].engine = "runSemgrepEngine"
    /\ inv[i].pc = "running"
    /\ inv' = [inv EXCEPT ![i].pc = "returned", ![i].result = "empty"]
    /\ UNCHANGED <<otherThanTmp, tmpFiles, clockMs>>

\* analyzeWithSemgrep() up to exec(): the availability check, the path from
\* Date.now(), writeFileSync
AnalyzeWithSemgrep(i, how) ==
    /\ inv[i].pc = "idle"
    /\ LET file == TempAnalysisPath(clockMs)
       IN  CASE how = "notInstalled" ->
                  /\ tmpFiles' = tmpFiles
                  /\ inv' = [inv EXCEPT ![i] =
                                Invocation("analyzeWithSemgrep", "done", << >>, << >>, "warning")]
             [] how = "writeFails" ->
                  /\ tmpFiles' = tmpFiles
                  /\ inv' = [inv EXCEPT ![i] =
                                Invocation("analyzeWithSemgrep", "done", << >>, << >>, "rejected")]
             [] how = "spawned" ->
                  /\ tmpFiles' = tmpFiles \cup {file}
                  /\ inv' = [inv EXCEPT ![i] =
                                Invocation("analyzeWithSemgrep", "running", << >>, file, "")]
    /\ UNCHANGED <<otherThanTmp, clockMs>>

\* the callback of exec(): failure without output resolves at once; output is
\* parsed and only then is the file unlinked, inside the same try
AnalyzeWithSemgrepCallback(i, how) ==
    /\ inv[i].engine = "analyzeWithSemgrep"
    /\ inv[i].pc = "running"
    /\ CASE how = "failed" ->
              /\ tmpFiles' = tmpFiles
              /\ inv' = [inv EXCEPT ![i].pc = "done", ![i].result = "failed"]
         [] how = "unparseable" ->
              /\ tmpFiles' = tmpFiles
              /\ inv' = [inv EXCEPT ![i].pc = "done", ![i].result = "parseError"]
         [] how = "output" ->
              IF inv[i].file \in tmpFiles
              THEN /\ tmpFiles' = tmpFiles \ {inv[i].file}
                   /\ inv' = [inv EXCEPT ![i].pc = "done", ![i].result = "issues"]
              ELSE /\ tmpFiles' = tmpFiles
                   /\ inv' = [inv EXCEPT ![i].pc = "done", ![i].result = "parseError"]
    /\ UNCHANGED <<otherThanTmp, clockMs>>

\* runTeamSecurityEngine() up to its dependency scan: mkdtempSync, then
\* writeFileSync and scanFile in a try whose finally removes file and
\* directory; all of it synchronous
RunTeamSecurityEngine(i, sfx, how) ==
    /\ inv[i].pc = "idle"
    /\ Fresh(TempDir("team-sec-", sfx))
    /\ LET dir == TempDir("team-sec-", sfx)
           file == FileIn(dir)
       IN  CASE how = "mkdtempFails" ->
                  /\ tmpFiles' = tmpFiles
                  /\ inv' = [inv EXCEPT ![i] =
                                Invocation("runTeamSecurityEngine", "done", << >>, << >>, "rejected")]
             [] how = "writeFails" ->
                  /\ tmpFiles' = Cleanup(tmpFiles \cup {dir}, dir, file)
                  /\ inv' = [inv EXCEPT ![i] =
                                Invocation("runTeamSecurityEngine", "done", dir, file, "empty")]
             [] how \in {"scanned", "scanThrows"} ->
                  /\ tmpFiles' = Cleanup(tmpFiles \cup {dir, file}, dir, file)
                  /\ inv' = [inv EXCEPT ![i] =
                                Invocation("runTeamSecurityEngine", "done", dir, file,
                                           IF how = "scanned" THEN "issues" ELSE "empty")]
    /\ UNCHANGED <<otherThanTmp, clockMs>>

\* a millisecond passes
ClockTick ==
    /\ clockMs < MaxClock
    /\ clockMs' = clockMs + 1
    /\ UNCHANGED <<otherThanTmp, tmpFiles, inv>>

Slots == 1..MaxInvocations

TmpNext ==
    \/ \E i \in Slots, sfx \in Suffixes, how \in {"mkdtempFails", "writeFails", "spawned"} :
          RunSemgrepEngine(i, sfx, how)
    \/ \E i \in Slots, how \in {"output", "unparseable", "ENOENT", "failed", "killed"} :
          SemgrepCallback(i, how)
    \/ \E i \in Slots : SemgrepTimeout(i)
    \/ \E i \in Slots, how \in {"notInstalled", "writeFails", "spawned"} :
          AnalyzeWithSemgrep(i, how)
    \/ \E i \in Slots, how \in {"failed", "unparseable", "output"} :
          AnalyzeWithSemgrepCallback(i, how)
    \/ \E i \in Slots, sfx \in Suffixes,
          how \in {"mkdtempFails", "writeFails", "scanned", "scanThrows"} :
          RunTeamSecurityEngine(i, sfx, how)
    \/ ClockTick

SpecTmp == Init /\ [][TmpNext]_vars

\* the engine call of slot i has completed: its promise has settled
Completed(i) == inv[i].pc \in {"done", "returned", "over"}

\* slot i holds a temporary file it created and has not yet given up
Holding(i) == inv[i].pc = "running"

\* C22: every temporary file and directory has a name unique to its
\* invocation, also among invocations in flight together, and is gone when
\* the engine call has completed, on every exit path.
C22_TempFilesUniqueAndRemoved ==
    /\ \A i \in Slots :
          Completed(i) => inv[i].file \notin tmpFiles /\ inv[i].dir \notin tmpFiles
    /\ \A i \in Slots, j \in Slots :
          (i # j /\ Holding(i) /\ Holding(j)) => inv[i].file # inv[j].file

\* ---------------------------------------------------------------------------
\* scanDependencies() (security/dependency.ts): one vulnerability lookup per
\* dependency, cached per package@version, with an offline fallback.
\* ---------------------------------------------------------------------------

otherThanDep ==
    <<stageVars, aggVars, entryVars, callVars, reportDiffVars, textDiffVars,
      detectVars, tmpVars>>

\* the package@version keys of the dependencies a package.json can name
Packages == {"left-pad@1.0.0", "lodash@4.17.20"}

\* the entries of offline-vuln-db.json
OfflineDB == {"lodash@4.17.20"}

\* what a lookup does: the service answers without or with vulnerabilities,
\* or the request fails
Lookups == {"clean", "vulnerable", "rateLimit", "networkFailure", "timeout"}

FailedLookups == {"rateLimit", "networkFailure", "timeout"}

DepIssue(rule, severity, message) ==
    [rule |-> rule, severity |-> severity, message |-> message]

InsecureDependency(key) == DepIssue("INSECURE_DEPENDENCY", "high", <<key, "known">>)

OfflineFinding(key) == DepIssue("INSECURE_DEPENDENCY", "critical", <<key, "offline">>)

\* the advisory of the catch block: one text for status 429, one otherwise
ScanWarning(lookup) ==
    DepIssue("DEPENDENCY_SCAN_WARNING", "low",
             IF lookup = "rateLimit" THEN <<"OSV rate limit exceeded">>
             ELSE <<"OSV service unavailable">>)

Scan(issues, cache, warned, failed) ==
    [issues |-> issues, cache |-> cache, warned |-> warned, failed |-> failed]

\* the body of the loop over the dependencies for one dependency
ScanOne(st, key, lookup) ==
    IF \E c \in st.cache : c.key = key
    THEN IF \E c \in st.cache : c.key = key /\ c.vulnerable
         THEN [st EXCEPT !.issues = Append(@, InsecureDependency(key))]
         ELSE st
    ELSE IF lookup \in FailedLookups
    THEN LET warning == IF st.warned THEN << >> ELSE <<ScanWarning(lookup)>>
             offline == IF key \in OfflineDB THEN <<OfflineFinding(key)>> ELSE << >>
         IN  Scan(st.issues \o warning \o offline, st.cache, TRUE, st.failed + 1)
    ELSE LET vulnerable == lookup = "vulnerable"
         IN  Scan(IF vulnerable THEN Append(st.issues, InsecureDependency(key)) ELSE st.issues,
                  st.cache \cup {[key |-> key, vulnerable |-> vulnerable]},
                  st.warned, st.failed)

RECURSIVE ScanFrom(_, _, _)
ScanFrom(st, deps, lookups) ==
    IF deps = << >> THEN st
    ELSE ScanFrom(ScanOne(st, Head(deps), Head(lookups)), Tail(deps), Tail(lookups))

\* scanDependencies(projectRoot): the issues it returns and the module state
\* it leaves; no package.json gives no issues
scanDependencies(hasPackageJson, deps, lookups, cache, warned) ==
    IF ~hasPackageJson THEN Scan(<< >>, cache, warned, 0)
    ELSE ScanFrom(Scan(<< >>, cache, warned, 0), deps, lookups)

\* the dependency lists of a package.json: its keys in insertion order
DependencyLists ==
    {<< >>} \cup {<<a>> : a \in Packages}
            \cup {<<ab[1], ab[2]>> : ab \in {x \in Packages \X Packages : x[1] # x[2]}}

ScanDependencies(hasPackageJson, deps, lookups) ==
    /\ depRuns < MaxRuns
    /\ Len(lookups) = Len(deps)
    /\ LET end == scanDependencies(hasPackageJson, deps, lookups, osvCache, warningIssued)
       IN  /\ depRun' = [kind |-> "run", issues |-> end.issues, failed |-> end.failed]
           /\ osvCache' = end.cache
           /\ warningIssued' = end.warned
    /\ depRuns' = depRuns + 1
    /\ UNCHANGED otherThanDep

ClearDependencyCache ==
    /\ osvCache # {}
    /\ osvCache' = {}
    /\ UNCHANGED <<otherThanDep, warningIssued, depRun, depRuns>>

DepNext ==
    \/ \E hasPackageJson \in BOOLEAN, deps \in DependencyLists :
          \E lookups \in [1..Len(deps) -> Lookups] :
              ScanDependencies(hasPackageJson, deps, lookups)
    \/ ClearDependencyCache

SpecDep == Init /\ [][DepNext]_vars

\* the advisories among the issues of the latest run
Advisories == SelectSeq(depRun.issues, LAMBDA i : i.rule = "DEPENDENCY_SCAN_WARNING")

\* C23: in every run of a sequence of runs, a failed lookup makes the run
\* surface exactly one low-severity advisory, and no run surfaces more than
\* one advisory.
C23_OneAdvisoryPerFailedRun ==
    depRun # NoValue =>
        /\ Len(Advisories) <= 1
        /\ depRun.failed > 0 =>
              /\ Len(Advisories) = 1
              /\ Advisories[1].severity = "low"

\* C24: analyze() called with a code that is not a string fails fast with a
\* TypeError: its promise rejects before any engine is registered, and never
\* resolves to a report.
C24_NonStringCodeRejected ==
    codeArg # "string" =>
        /\ apc = "rejected"
        /\ tasks = << >>
        /\ entryError # NoValue /\ entryError.name = "TypeError"

\* C25: run() always eventually returns, and does so by resolving: once
\* called it is never running after the stage deadline, it is not running
\* once every per-task race has settled, and without the stage guard firing
\* it returns the settled outcomes.
C25_RunEventuallyReturns ==
    /\ [](pc = "running" => (now <= stageMs /\ ~AllSettled(outcome)))
    /\ []((pc = "returned" /\ ~stageFired) => (AllSettled(outcome) /\ returned = outcome))
    /\ [](pc = "returned" => now <= stageMs)
    /\ (pc = "running") ~> (pc = "returned")

\* run() has returned at the stage deadline although a task never settled
C25_Witness ==
    /\ pc = "returned"
    /\ stageFired
    /\ now = stageMs
    /\ \E i \in 1..Len(tasks) : outcome[i] = Pending /\ fnResult[i] = Running

\* C26: whenever taskTimeoutMs is strictly less than stageTimeoutMs the stage
\* guard never fires: every task has settled as fulfilled, rejected or timeout
\* no later than its per-task deadline, and run() returns exactly one outcome
\* per registered task, in registration order.
C26_ShorterTaskTimeoutSettlesAll ==
    (pc \in {"running", "returned"} /\ taskMs < stageMs) =>
        /\ ~stageFired
        /\ now <= taskMs
        /\ pc = "returned" =>
              /\ Len(returned) = Len(tasks)
              /\ \A i \in 1..Len(tasks) :
                    /\ returned[i].label = tasks[i].label
                    /\ returned[i].status \in {"fulfilled", "rejected", "timeout"}
                    /\ returned[i] = outcome[i]

\* run() has returned at the per-task deadline two outcomes, one of a task
\* timed out by its timer and one of a task that settled on its own
C26_Witness ==
    /\ pc = "returned"
    /\ taskMs < stageMs
    /\ now = taskMs
    /\ Len(returned) = 2
    /\ \E i, j \in 1..2 : wonBy[i] = "timer" /\ wonBy[j] = "fn"

\* C27: a StageResult has status "timeout" only if the task's per-task timer
\* fired before the task settled; a task that rejects or throws on its own has
\* status "rejected", whatever it fails with.
C27_TimeoutOnlyFromTimer ==
    \A i \in 1..Len(outcome) :
        /\ outcome[i].status = "timeout" => wonBy[i] = "timer"
        /\ (wonBy[i] = "fn" /\ fnResult[i].kind = "throw") =>
              outcome[i].status = "rejected"

\* the lines of s at the positions idx, in order
RECURSIVE PickLines(_, _, _)
PickLines(s, idx, k) ==
    IF k > Len(s) THEN << >>
    ELSE (IF k \in idx THEN <<s[k]>> ELSE << >>) \o PickLines(s, idx, k + 1)

Subsequences(s) == {PickLines(s, idx, 1) : idx \in SUBSET (1..Len(s))}

\* the length of a longest common subsequence, by its definition
LCSLength(a, b) ==
    LET common == Subsequences(a) \cap Subsequences(b)
    IN CHOOSE n \in 0..Len(a) :
          /\ \E c \in common : Len(c) = n
          /\ \A c \in common : Len(c) <= n

LinesOf(ops) == [k \in 1..Len(ops) |-> ops[k].line]

IsEqual(op) == op.type = "equal"

\* the operations backtrack() produces for the two texts
ScriptOps == backtrack(Split(originalCode), Split(formattedCode))

\* C28: the operation sequence backtrack(a, b) produces is a valid edit script
\* built on a longest common subsequence: its equal and delete operations, in
\* order, are the lines of a, its equal and insert operations, in order, are
\* the lines of b, and the number of equal operations is the LCS length.
C28_BacktrackIsLCSEditScript ==
    Generated =>
        /\ LinesOf(SelectSeq(ScriptOps, OnOriginal)) = Split(originalCode)
        /\ LinesOf(SelectSeq(ScriptOps, OnFormatted)) = Split(formattedCode)
        /\ Len(SelectSeq(ScriptOps, IsEqual)) =
              LCSLength(Split(originalCode), Split(formattedCode))
        /\ \A k \in 1..Len(ScriptOps) : ScriptOps[k].type \in {"equal", "insert", "delete"}

\* a script that keeps a line, deletes one and inserts one, for two texts
\* with more than one common subsequence of the greatest length
C28_Witness ==
    /\ Generated
    /\ \E k \in 1..Len(ScriptOps) : IsEqual(ScriptOps[k])
    /\ \E k \in 1..Len(ScriptOps) : IsInsert(ScriptOps[k])
    /\ \E k \in 1..Len(ScriptOps) : IsDelete(ScriptOps[k])
    /\ \E c, d \in Subsequences(Split(originalCode)) \cap Subsequences(Split(formattedCode)) :
          /\ c # d
          /\ Len(c) = Len(d)
          /\ Len(c) = LCSLength(Split(originalCode), Split(formattedCode))

\* contextLines as generateUnifiedDiff() hands it to groupHunks()
ContextOf == OptionOr(contextLines, 3)

ScriptRanges == HunkRanges(ScriptOps, ContextOf)

\* the positions (from 0) of the operations the r-th hunk holds
HunkPositions(r) ==
    {p \in 0..(Len(ScriptOps) - 1) : ScriptRanges[r].start <= p /\ p <= ScriptRanges[r].end}

ChangedPositions == {ChangedIndices(ScriptOps)[k] : k \in 1..Len(ChangedIndices(ScriptOps))}

Distance(p, q) == IF p >= q THEN p - q ELSE q - p

\* every non-equal operation is in exactly one hunk
EveryChangeInOneHunk ==
    \A c \in ChangedPositions :
        \E r \in 1..Len(ScriptRanges) :
            /\ c \in HunkPositions(r)
            /\ \A q \in 1..Len(ScriptRanges) : c \in HunkPositions(q) => q = r

\* every hunk is the run of operations at its positions, each of them within
\* contextLines positions of a changed operation
HunksAreContextRuns ==
    /\ Len(groupHunks(ScriptOps, ContextOf)) = Len(ScriptRanges)
    /\ \A r \in 1..Len(ScriptRanges) :
          /\ groupHunks(ScriptOps, ContextOf)[r] =
                Slice(ScriptOps, ScriptRanges[r].start, ScriptRanges[r].end + 1)
          /\ \A p \in HunkPositions(r) :
                \E c \in ChangedPositions : Distance(p, c) <= ContextOf

\* hunks are disjoint and in increasing order
HunksDisjointIncreasing ==
    \A r, q \in 1..Len(ScriptRanges) :
        r < q => \A p \in HunkPositions(r), u \in HunkPositions(q) : p < u

\* two consecutive changed operations share a hunk exactly when their windows
\* overlap or touch
MergedIffWindowsTouch ==
    \A k \in 1..(Len(ChangedIndices(ScriptOps)) - 1) :
        LET c == ChangedIndices(ScriptOps)[k]
            d == ChangedIndices(ScriptOps)[k + 1]
        IN (\E r \in 1..Len(ScriptRanges) : {c, d} \subseteq HunkPositions(r))
               <=> (d - ContextOf <= c + ContextOf + 1)

\* C29: groupHunks puts every non-equal operation in exactly one hunk; each
\* hunk is a contiguous run of operations every one of which lies within
\* contextLines positions of a changed operation; hunks are disjoint and in
\* increasing order; and two consecutive changed operations fall in the same
\* hunk exactly when their windows, each expanded by contextLines, overlap or
\* touch.
C29_HunksPartitionChanges ==
    (tpc \in {"generated", "measured", "parsed"} /\ originalCode # formattedCode) =>
        /\ EveryChangeInOneHunk
        /\ HunksAreContextRuns
        /\ HunksDisjointIncreasing
        /\ MergedIffWindowsTouch

\* the complexity warnings aggregate() emitted about the function fn
WarningsAbout(fn) ==
    LET About(i) == /\ i.category = "complexity"
                    /\ i.severity = "warning"
                    /\ i.line = {fn.line}
                    /\ Len(i.message) >= 2
                    /\ i.message[2] = fn.name
    IN SelectSeq(aggregated.complexityMetrics.issues, About)

\* the number of records of the function fn among the complexity records
Occurrences(fn) ==
    LET Same(g) == g = fn
    IN Len(SelectSeq(aggregated.complexityMetrics.functions, Same))

\* one warning per entry of the function's warnings list
OneWarningPerEntry(fn) ==
    \A w \in 1..Len(fn.warnings) :
        LET Quotes(i) == i.message[3] = fn.warnings[w]
        IN Len(SelectSeq(WarningsAbout(fn), Quotes)) = Occurrences(fn)

\* C30: converting complexity records to issues, the aggregator emits one
\* complexity warning per entry of a function's warnings list and, in
\* addition, flags with a complexity warning every function whose
\* nestingDepth exceeds 3, even when that function has no warnings.
C30_DeepNestingFlagged ==
    Aggregated =>
        \A k \in 1..Len(aggregated.complexityMetrics.functions) :
            LET fn == aggregated.complexityMetrics.functions[k]
            IN /\ OneWarningPerEntry(fn)
               /\ fn.nestingDepth > 3 => Len(WarningsAbout(fn)) >= 1

====
